---- MODULE Spec2Model ----
(***************************************************************************)
(* Model of the reporting system's dynamic data access routes              *)
(* (src/routes/report_api_routes.py): the ad-hoc SQL executor              *)
(* execute_sql_query with convert_value_safely (SpecExec), the request     *)
(* stage of generate_dynamic_report / preview_dynamic_report (SpecDyn),    *)
(* and their query stage: row shaping and chart extraction (SpecShape).    *)
(*                                                                         *)
(* Texts whose characters matter (SQL text, column identifiers) are        *)
(* sequences of one-character strings, so that strip(), upper(), lower()   *)
(* and the regular expressions of the source are computed character by     *)
(* character.  Texts that are only produced (cell strings, messages) are   *)
(* TLA+ strings.                                                           *)
(***************************************************************************)
EXTENDS Integers, Sequences, FiniteSets, TLC

(***************************************************************************)
(* Bounds of the model.                                                    *)
(***************************************************************************)
\* most pieces concatenated into a generated SQL text
MaxPieces == 2
\* most rows of a result set
MaxRows == 3
\* largest explicit, non-negative limit of a request
MaxLimit == 2
\* most column accesses that raise during one row-by-row fallback
MaxColFaults == 1
\* most entries of a requested column list
MaxCols == 3
MaxFunctions == 2
MaxExports == 3
MaxCharts == 2

(***************************************************************************)
(* Python str primitives, character by character.                          *)
(***************************************************************************)
LowerChars ==
  <<"a","b","c","d","e","f","g","h","i","j","k","l","m",
    "n","o","p","q","r","s","t","u","v","w","x","y","z">>
UpperChars ==
  <<"A","B","C","D","E","F","G","H","I","J","K","L","M",
    "N","O","P","Q","R","S","T","U","V","W","X","Y","Z">>
DigitChars == <<"0","1","2","3","4","5","6","7","8","9">>

RangeOf(s) == {s[i] : i \in 1..Len(s)}

\* str.isspace of one character
IsSpace(c) == c \in {" ", "\t", "\n", "\r"}

LowerSet == RangeOf(LowerChars)
UpperSet == RangeOf(UpperChars)

\* the characters of the regular expression class \w
WordChars == LowerSet \cup UpperSet \cup RangeOf(DigitChars) \cup {"_"}

IsWordChar(c) == c \in WordChars

CharUpper(c) ==
  IF c \in LowerSet
  THEN UpperChars[CHOOSE i \in 1..26 : LowerChars[i] = c]
  ELSE c

CharLower(c) ==
  IF c \in UpperSet
  THEN LowerChars[CHOOSE i \in 1..26 : UpperChars[i] = c]
  ELSE c

\* str.upper() and str.lower()
PyUpper(s) == [i \in 1..Len(s) |-> CharUpper(s[i])]
PyLower(s) == [i \in 1..Len(s) |-> CharLower(s[i])]

\* str.strip(): drops the leading and the trailing whitespace
PyStrip(s) ==
  LET keep == {i \in 1..Len(s) : ~IsSpace(s[i])}
  IN  IF keep = {} THEN <<>>
      ELSE LET lo == CHOOSE i \in keep : \A j \in keep : i <= j
               hi == CHOOSE i \in keep : \A j \in keep : j <= i
           IN  SubSeq(s, lo, hi)

\* p occurs in s at position i
MatchAt(s, p, i) ==
  /\ i >= 1
  /\ i + Len(p) - 1 <= Len(s)
  /\ SubSeq(s, i, i + Len(p) - 1) = p

\* str.startswith
PyStartsWith(s, p) == MatchAt(s, p, 1)

\* the Python operator `p in s` on strings
PyContains(s, p) == \E i \in 1..(Len(s) + 1) : MatchAt(s, p, i)

\* \b between positions i-1 and i of s (i in 1..Len(s)+1)
WordBoundary(s, i) ==
  LET before == i - 1 >= 1 /\ i - 1 <= Len(s) /\ IsWordChar(s[i - 1])
      after  == i >= 1 /\ i <= Len(s) /\ IsWordChar(s[i])
  IN  before # after

\* re.search(rf'\b{re.escape(keyword)}\b', s) finds a match
ReSearchWord(s, keyword) ==
  \E i \in 1..Len(s) :
    /\ MatchAt(s, keyword, i)
    /\ WordBoundary(s, i)
    /\ WordBoundary(s, i + Len(keyword))

\* the index at which the maximal \w run starting at i ends
WordEnd(s, i) ==
  LET ends == {j \in i..Len(s) : j = Len(s) \/ ~IsWordChar(s[j + 1])}
  IN  CHOOSE j \in ends : \A g \in ends : j <= g

\* positions at which a maximal \w run of s starts
WordStarts(s) == {i \in 1..Len(s) : IsWordChar(s[i]) /\ WordBoundary(s, i)}

\* re.search(rf'\b(\w*{pattern}\w*)\b', s, re.IGNORECASE).group(1): the
\* leftmost whole word of s that contains pattern, ignoring case (<<>> when
\* there is no match)
ReSearchWordContaining(s, pattern) ==
  LET hits == {i \in WordStarts(s) :
                 PyContains(PyLower(SubSeq(s, i, WordEnd(s, i))), PyLower(pattern))}
  IN  IF hits = {} THEN <<>>
      ELSE LET i == CHOOSE h \in hits : \A g \in hits : h <= g
           IN  SubSeq(s, i, WordEnd(s, i))

\* Python's seq[:k] for any integer k
PySliceTo(seq, k) ==
  IF k >= 0
  THEN SubSeq(seq, 1, IF k < Len(seq) THEN k ELSE Len(seq))
  ELSE SubSeq(seq, 1, IF Len(seq) + k > 0 THEN Len(seq) + k ELSE 0)

(***************************************************************************)
(* Literals of the source and texts of the requests.                       *)
(***************************************************************************)
kwSELECT == <<"S","E","L","E","C","T">>

\* dangerous_keywords, in list order
dangerous_keywords ==
  << [name |-> "DROP",     chars |-> <<"D","R","O","P">>],
     [name |-> "DELETE",   chars |-> <<"D","E","L","E","T","E">>],
     [name |-> "UPDATE",   chars |-> <<"U","P","D","A","T","E">>],
     [name |-> "INSERT",   chars |-> <<"I","N","S","E","R","T">>],
     [name |-> "ALTER",    chars |-> <<"A","L","T","E","R">>],
     [name |-> "CREATE",   chars |-> <<"C","R","E","A","T","E">>],
     [name |-> "TRUNCATE", chars |-> <<"T","R","U","N","C","A","T","E">>],
     [name |-> "EXEC",     chars |-> <<"E","X","E","C">>],
     [name |-> "EXECUTE",  chars |-> <<"E","X","E","C","U","T","E">>] >>

\* datetime_patterns of the error handler, in list order
datetime_patterns ==
  << <<"c","r","e","a","t","e","d","a","t">>,
     <<"c","r","e","a","t","e","d","_","a","t">>,
     <<"u","p","d","a","t","e","d","a","t">>,
     <<"u","p","d","a","t","e","d","_","a","t">>,
     <<"d","e","l","e","t","e","d","a","t">>,
     <<"d","e","l","e","t","e","d","_","a","t">>,
     <<"d","a","t","e">>,
     <<"t","i","m","e","s","t","a","m","p">> >>

txtCreatedAt == <<"c","r","e","a","t","e","d","A","t">>

\* the request texts of the specification's scenarios
sqlUpdateT ==
  <<"U","P","D","A","T","E"," ","T"," ","S","E","T"," ","x","=","1">>
sqlSelectCreatedAt ==
  <<"S","E","L","E","C","T"," ","c","r","e","a","t","e","d","A","t"," ","F","R","O","M"," ","T">>
sqlSelectUpdateLower ==
  <<"S","E","L","E","C","T"," ","u","p","d","a","t","e">>
sqlSelectX ==
  <<"S","E","L","E","C","T"," ","x"," ","F","R","O","M"," ","T">>
sqlSelectManyDates ==
  <<"S","E","L","E","C","T"," ","u","p","d","a","t","e","d","_","a","t",","," ",
    "c","r","e","a","t","e","d","A","t",","," ","d","a","t","e",","," ",
    "t","i","m","e","s","t","a","m","p"," ","F","R","O","M"," ","T">>

\* pieces a generated SQL text is concatenated from
SqlPieces ==
  { kwSELECT, <<" ">>, txtCreatedAt, <<"u","p","d","a","t","e">>, <<"_">> }

RECURSIVE Concat(_)
Concat(pieces) ==
  IF pieces = <<>> THEN <<>> ELSE Head(pieces) \o Concat(Tail(pieces))

\* the 'sql' field of the request bodies the model submits
SqlTexts ==
  { Concat(ps) : ps \in UNION {[1..n -> SqlPieces] : n \in 0..MaxPieces} }
    \cup { sqlUpdateT, sqlSelectCreatedAt, sqlSelectUpdateLower, sqlSelectX,
           sqlSelectManyDates }

(***************************************************************************)
(* execute_sql_query: validation of the request body.                      *)
(***************************************************************************)
DefaultLimit == 1000

\* the 'limit' field of the request bodies: absent, an integer, or a value
\* int() cannot convert
LimitInputs ==
  {[kind |-> "absent", n |-> 0], [kind |-> "bad", n |-> 0]}
    \cup {[kind |-> "int", n |-> k] : k \in (-1)..MaxLimit}

\* int(body.get('limit', 1000)); raises for a value int() cannot convert
LimitRaises(lim) == lim.kind = "bad"
LimitValue(lim) == IF lim.kind = "absent" THEN DefaultLimit ELSE lim.n

\* indexes of the dangerous keywords found as whole words in sql_upper
KeywordHits(sql_upper) ==
  {k \in 1..Len(dangerous_keywords) :
     ReSearchWord(sql_upper, dangerous_keywords[k].chars)}

\* the keywords found anywhere in sql_upper, inside longer words too
KeywordHitsSubstring(sql_upper) ==
  {k \in 1..Len(dangerous_keywords) :
     PyContains(sql_upper, dangerous_keywords[k].chars)}

\* the verdict of the security checks on body['sql']: ok, or the
\* HTTPException(400) raised, with the keyword its detail names
ValidateWith(raw, hits) ==
  LET sql_query == PyStrip(raw)
      sql_upper == PyStrip(PyUpper(sql_query))
  IN  IF sql_query = <<>>
      THEN [ok |-> FALSE, status |-> 400,
            detail |-> "SQL query is required", keyword |-> ""]
      ELSE IF ~PyStartsWith(sql_upper, kwSELECT)
      THEN [ok |-> FALSE, status |-> 400,
            detail |-> "Only SELECT statements are allowed", keyword |-> ""]
      ELSE IF hits # {}
      THEN LET k == CHOOSE h \in hits : \A g \in hits : h <= g
           IN  [ok |-> FALSE, status |-> 400,
                detail |-> "Operation '" \o dangerous_keywords[k].name
                              \o "' is not allowed",
                keyword |-> dangerous_keywords[k].name]
      ELSE [ok |-> TRUE, status |-> 200, detail |-> "", keyword |-> ""]

\* the keyword search by substring
ValidateSqlSubstring(raw) ==
  ValidateWith(raw, KeywordHitsSubstring(PyStrip(PyUpper(PyStrip(raw)))))

\* the keyword search on the text as submitted, not upper-cased
ValidateSqlCaseSensitive(raw) ==
  ValidateWith(raw, KeywordHits(PyStrip(raw)))

\* the keyword search made before the SELECT check
ValidateSqlKeywordsFirst(raw) ==
  LET hits == KeywordHits(PyStrip(PyUpper(PyStrip(raw))))
  IN  IF PyStrip(raw) # <<>> /\ hits # {}
      THEN [ok |-> FALSE, status |-> 400,
            detail |-> "Operation '"
               \o dangerous_keywords[CHOOSE h \in hits : \A g \in hits : h <= g].name
               \o "' is not allowed",
            keyword |->
               dangerous_keywords[CHOOSE h \in hits : \A g \in hits : h <= g].name]
      ELSE ValidateWith(raw, {})

\* lines 1208-1234: the checks of execute_sql_query on body['sql']

ValidateSql(raw) ==
  ValidateWith(raw, KeywordHits(PyStrip(PyUpper(PyStrip(raw)))))

\* datetime_columns of the error handler: for each pattern contained in
\* sql_query.lower(), the leftmost word of sql_query that contains it
datetime_columns(sql_query) ==
  LET sql_lower == PyLower(sql_query)
      found == SelectSeq(datetime_patterns, LAMBDA p : PyContains(sql_lower, p))
  IN  [i \in 1..Len(found) |-> ReSearchWordContaining(sql_query, found[i])]

\* set(datetime_columns[:3]): the columns the CAST examples name
CastExamples(sql_query) == RangeOf(PySliceTo(datetime_columns(sql_query), 3))

(***************************************************************************)
(* Database cells and convert_value_safely.                                *)
(*                                                                         *)
(* A cell is [t, n, s, hms]: t is the Python type the driver returns;      *)
(* n holds an int, a bool (0/1), a float in tenths or a date as yyyymmdd;  *)
(* hms holds the time of a datetime as hhmmss; s holds the text of a str,  *)
(* or what str()/repr() give for a value of another type.                  *)
(***************************************************************************)
Cell(t, n, s, hms) == [t |-> t, n |-> n, s |-> s, hms |-> hms]

\* the cells the result sets are filled from, cyclically
CellValues ==
  << Cell("str", 0, "Jan", 0),
     Cell("none", 0, "", 0),
     Cell("int", 5, "", 0),
     Cell("datetime", 20240105, "", 93000),
     Cell("bool", 1, "", 0),
     Cell("float", 25, "", 0),
     Cell("date", 20231231, "", 0),
     Cell("decimal", 0, "12.50", 0),
     Cell("int", 12, "", 0),
     Cell("str", 0, "", 0),
     Cell("opaque", 0, "<Blob>", 0),
     Cell("bool", 0, "", 0) >>

RECURSIVE NatStr(_)
\* str(n) of a natural number
NatStr(n) ==
  IF n < 10 THEN DigitChars[n + 1]
  ELSE NatStr(n \div 10) \o DigitChars[(n % 10) + 1]

\* n as two decimal digits
Pad2(n) == DigitChars[((n \div 10) % 10) + 1] \o DigitChars[(n % 10) + 1]

\* n as four decimal digits
Pad4(n) == Pad2(n \div 100) \o Pad2(n % 100)

\* date.isoformat() and datetime.isoformat() (no microseconds, no tzinfo)
IsoFormat(v) ==
  LET day == Pad4(v.n \div 10000) \o "-" \o Pad2((v.n \div 100) % 100)
               \o "-" \o Pad2(v.n % 100)
  IN  IF v.t = "date" THEN day
      ELSE day \o "T" \o Pad2(v.hms \div 10000) \o ":"
             \o Pad2((v.hms \div 100) % 100) \o ":" \o Pad2(v.hms % 100)

\* str(value) of a str, int, float or bool
PyStrScalar(v) ==
  CASE v.t = "str"   -> v.s
    [] v.t = "int"   -> NatStr(v.n)
    [] v.t = "bool"  -> IF v.n = 1 THEN "True" ELSE "False"
    [] v.t = "float" -> NatStr(v.n \div 10) \o "." \o NatStr(v.n % 10)

\* types whose __str__ raises TypeError, and those whose __repr__ raises too
StrRaises(v) == v.t \in {"opaque", "broken"}
ReprRaises(v) == v.t = "broken"

\* the names bound in the module's global namespace by its import
\* statements and assignments; the imports inside execute_sql_query bind
\* locals of that function only
module_globals ==
  { "asyncio", "json", "datetime", "os", "httpx", "APIRouter", "Query",
    "HTTPException", "Request", "UploadFile", "File", "Form", "Response",
    "FileResponse", "StreamingResponse", "Optional", "write_debug",
    "build_dynamic_sql_query", "router" }

\* convert_value_safely(value), with the global names globals binds:
\* evaluating the tuple (datetime, date) raises NameError for an unbound
\* name, which the outer `except Exception` turns into the marker
ConvertWith(value, globals) ==
  IF value.t = "none" THEN ""
  ELSE IF value.t \in {"str", "int", "float", "bool"} THEN PyStrScalar(value)
  ELSE IF ~({"datetime", "date"} \subseteq globals) THEN "[Conversion Error]"
  ELSE IF value.t \in {"datetime", "date"} THEN IsoFormat(value)
  ELSE IF StrRaises(value)
       THEN IF ReprRaises(value) THEN "[Unsupported Type]" ELSE value.s
  ELSE value.s

convert_value_safely(value) == ConvertWith(value, module_globals)

(***************************************************************************)
(* Result sets of the driver.                                              *)
(***************************************************************************)
\* cursor.description's column names; a join may repeat a name
ColumnLists == { <<"a">>, <<"a", "b">>, <<"id", "id">> }

\* where in CellValues the first cell of a result set is taken
CellOffset(cols) ==
  CASE cols = <<"a">> -> 0
    [] cols = <<"a", "b">> -> 3
    [] OTHER -> 6

ResultSetOf(cols, n) ==
  [ columns |-> cols,
    rows |-> [i \in 1..n |->
               [j \in 1..Len(cols) |->
                 CellValues[((CellOffset(cols) + (i - 1) * Len(cols) + (j - 1))
                              % Len(CellValues)) + 1]]] ]

ResultSets == { ResultSetOf(cols, n) : cols \in ColumnLists, n \in 0..MaxRows }

NoResultSet == [columns |-> <<>>, rows |-> <<>>]

\* the dict built by `row_dict[col] = ...` for idx = 0, 1, ...: a later
\* column of the same name overwrites an earlier one
RowDict(cols, cells) ==
  [ c \in RangeOf(cols) |->
      cells[CHOOSE j \in 1..Len(cols) :
              cols[j] = c /\ \A k \in 1..Len(cols) : cols[k] = c => k <= j] ]

\* the bulk path's row_dict of one row
BulkRow(cols, row) ==
  RowDict(cols, [j \in 1..Len(cols) |-> convert_value_safely(row[j])])

\* a failed column read spoiling every cell of the row
FallbackRowAllOrNothing(cols, row, access) ==
  RowDict(cols,
    [j \in 1..Len(cols) |->
       IF \A k \in 1..Len(cols) : access[k] = "ok"
       THEN convert_value_safely(row[j]) ELSE "[Error]"])

\* the fallback path's row_dict of one row; access[j] tells whether
\* reading row[idx] succeeded ("ok"), raised TypeError, ValueError,
\* AttributeError or IndexError ("unsupported"), or raised another
\* exception ("error")
FallbackRow(cols, row, access) ==
  RowDict(cols,
    [j \in 1..Len(cols) |->
       CASE access[j] = "ok" -> convert_value_safely(row[j])
         [] access[j] = "unsupported" -> "[Unsupported Type]"
         [] OTHER -> "[Error]"])

(***************************************************************************)
(* State.                                                                  *)
(***************************************************************************)
VARIABLES
  sql,          \* body['sql'] of the execute-sql request
  limit,        \* body['limit'] of the execute-sql request
  pc,           \* position of execute_sql_query
  max_rows,     \* int(body.get('limit', 1000))
  conn,         \* the pyodbc connection: "none", "open" or "closed"
  cursor,       \* the cursor the name `cursor` is bound to: "none", "open", "closed"
  connects,     \* calls of pyodbc.connect made so far
  rs,           \* the result set the driver holds for the query
  columns,      \* column names read from cursor.description
  result_rows,  \* the row dicts collected so far
  row_count,    \* rows appended so far
  fetched,      \* rows the fallback cursor has handed out
  path,         \* "none", "bulk" or "fallback"
  odbcAt,       \* where the driver raised 'ODBC SQL type ... is not yet supported'
  badRow,       \* position of the row whose fetchone raised, 0 if none
  colFaults,    \* <<row position, column index>> of the column reads that raised
  response,     \* the handler's response once it has returned
  handler,      \* "generate" (generate_dynamic_report) or "preview"
  dpc,          \* position of the dynamic report handler
  req_tables,   \* body['tables']
  req_columns,  \* body['columns']
  valid_columns,\* the filtered column list
  builder_args, \* the column lists build_dynamic_sql_query was called with
  dconn,        \* the handler's connection: "none", "open" or "closed"
  dcursor,      \* the handler's cursor: "none", "open" or "closed"
  dresponse,    \* [status, detail] of the handler's response, status 0 before
  plimit,       \* body['previewLimit'] of the preview request
  preview_limit,\* int(body.get('previewLimit', 200))
  header_config,\* body['headerConfig']: its chartConfig and chart_data entries
  column_names, \* the names read from cursor.description
  dyn_rows,     \* `rows`: the rows cursor.fetchall() returned
  data_rows_dict,\* the row dicts kept for the chart extraction
  out_columns,  \* the column list handed to the renderer or returned
  out_rows,     \* the rows handed to the renderer or returned
  total_rows,   \* 'total' of the preview response
  merged_config,\* the configuration handed to the renderer
  chart_type,   \* chart_config.get('type', 'bar')
  x_col_match,  \* the column the x key resolved to, <<>> for None
  y_col_match,  \* the column the y key resolved to, <<>> for None
  chart_path,   \* the branch that extracted labels and values
  rendered      \* whether the renderer has been called

\* the request stage of the dynamic report handlers
reqVars ==
  << handler, dpc, req_tables, req_columns, valid_columns, builder_args,
     dconn, dcursor, dresponse, plimit, preview_limit >>

\* the query stage of the dynamic report handlers
shapeVars ==
  << header_config, column_names, dyn_rows, data_rows_dict, out_columns, out_rows,
     total_rows, merged_config, chart_type, x_col_match, y_col_match,
     chart_path, rendered >>

dynVars == << reqVars, shapeVars >>

execVars ==
  << sql, limit, pc, max_rows, conn, cursor, connects, rs, columns, result_rows,
     row_count, fetched, path, odbcAt, badRow, colFaults, response >>

VARIABLES
  format_type_raw, \* body['format'] of the export request
  format_type,     \* the normalised format
  renderer,        \* the report generator the handler called
  file_extension,  \* the extension of the generated file
  media_type,      \* the media type of the response
  fmt_status,      \* the status of the response, 0 before
  fmt_pc           \* position of the handler on its format path

\* the format path of generate_dynamic_report
formatVars ==
  << format_type_raw, format_type, renderer, file_extension, media_type,
     fmt_status, fmt_pc >>

VARIABLES
  svc_user_id,     \* user_id passed to get_user_function_access
  group_name,      \* group_name passed to get_user_function_access
  function_rows,   \* function_id of the UserFunction rows the query returns
  selected_function_id, \* the function the caller selected
  user_access,          \* the UserFunctionAccess object
  access_via,      \* how the object was made: "service" or "constructor"
  function_filter, \* the SQL fragment a filter builder returned
  acc_pc           \* position of the caller of the access service

\* the state around UserFunctionAccessService
accessVars ==
  << svc_user_id, group_name, function_rows, selected_function_id, user_access,
     access_via, function_filter, acc_pc >>

VARIABLES
  report_exports,  \* the table dbo.report_exports: its columns and its rows
  export_request,  \* the export logging request being answered
  export_result    \* the dict the export logging handler returned

\* the state of the export logging handlers
exportVars == << report_exports, export_request, export_result >>

VARIABLES
  endpoint,        \* the risk or comply export endpoint that was called
  query,           \* its query parameters
  card_type,       \* cardType after the parameters are normalised
  route_response,  \* [status, detail] of the response, status 0 before
  route_pc         \* position of the export endpoint

\* the state of the risk and comply export endpoints
routeVars == << endpoint, query, card_type, route_response, route_pc >>

VARIABLES
  dashboard_charts,\* the table dynamic_dashboard_charts: its rows by id
  deleted_charts,  \* the ids of the charts a delete call has succeeded for
  chart_request,   \* the dynamic dashboard request being answered
  chart_result     \* its answer: the status and the ids of the charts listed

\* the state of the dynamic dashboard handlers
chartVars == << dashboard_charts, deleted_charts, chart_request, chart_result >>

\* the state of the handlers other than the query handlers
restVars == << formatVars, accessVars, exportVars, routeVars, chartVars >>

\* no export request is on its format path
FormatIdle ==
  /\ format_type_raw = [kind |-> "absent", chars |-> <<>>]
  /\ format_type = <<>>
  /\ renderer = "none"
  /\ file_extension = <<>>
  /\ media_type = ""
  /\ fmt_status = 0
  /\ fmt_pc = "idle"

\* a group name or a selected function that was not passed, or is None
NoText == [has |-> FALSE, chars |-> <<>>]
NoSelection == [has |-> FALSE, id |-> ""]

\* UserFunctionAccess.__init__: function_ids or []
UserFunctionAccess(is_super_admin, function_ids) ==
  [is_super_admin |-> is_super_admin, function_ids |-> function_ids]

\* a filter builder has returned nothing yet
NoFilter == [builder |-> "none", kind |-> "none", via |-> "", alias |-> "", ids |-> <<>>]

\* the access service is not in use
AccessIdle ==
  /\ svc_user_id = ""
  /\ group_name = NoText
  /\ function_rows = <<>>
  /\ selected_function_id = NoSelection
  /\ user_access = UserFunctionAccess(FALSE, <<>>)
  /\ access_via = "none"
  /\ function_filter = NoFilter
  /\ acc_pc = "idle"

\* a database without dbo.report_exports
NoExportsTable == [exists |-> FALSE, columns |-> {}, count |-> 0]

NoExportRequest == [op |-> "none", limit |-> 0, page |-> 0]

NoPagination ==
  [page |-> 0, limit |-> 0, total |-> 0, totalPages |-> 0, hasNext |-> FALSE,
   hasPrev |-> FALSE]

NoExportResult ==
  [success |-> FALSE, id |-> 0, returned |-> 0, pagination |-> NoPagination]

\* the export logging handlers are not in use
ExportIdle ==
  /\ report_exports = NoExportsTable
  /\ export_request = NoExportRequest
  /\ export_result = NoExportResult

\* the query parameters of an export endpoint; '' stands for a parameter
\* that is missing (None) or empty
NoQuery ==
  [cardType |-> "", chartType |-> "", tableType |-> "", onlyChart |-> <<>>,
   onlyOverallTable |-> <<>>]

\* no export endpoint is running
RouteIdle ==
  /\ endpoint = "none"
  /\ query = NoQuery
  /\ card_type = ""
  /\ route_response = [status |-> 0, detail |-> ""]
  /\ route_pc = "idle"

\* a database without dynamic_dashboard_charts
NoChartsTable == [exists |-> FALSE, rows |-> <<>>]

\* request.state.user is not set
NoUser == [present |-> FALSE, id |-> ""]

NoChartRequest == [op |-> "none", user |-> NoUser, chart_id |-> 0]

NoChartResult == [status |-> 0, charts |-> <<>>]

\* the dynamic dashboard handlers are not in use
ChartIdle ==
  /\ dashboard_charts = NoChartsTable
  /\ deleted_charts = {}
  /\ chart_request = NoChartRequest
  /\ chart_result = NoChartResult

\* none of the other handlers is running
RestIdle ==
  /\ FormatIdle
  /\ AccessIdle
  /\ ExportIdle
  /\ RouteIdle
  /\ ChartIdle

NoResponse ==
  [ status |-> 0, success |-> FALSE, detail |-> "", keyword |-> "",
    hint |-> "", cast |-> {}, columns |-> <<>>, rows |-> <<>>, total |-> 0 ]

\* an HTTPException raised by the validation
Rejection(v) ==
  [NoResponse EXCEPT !.status = v.status, !.detail = v.detail,
                     !.keyword = v.keyword]

\* the `except Exception` handler of execute_sql_query: the HTTPException
\* it raises for an error whose message is, or is not, the driver's
\* 'ODBC SQL type ... is not yet supported'.  col_name stays None: the
\* finally block has closed the cursor before the handler reads it
ErrorResponse(raw, unsupported) ==
  LET examples == CastExamples(PyStrip(raw))
  IN  IF unsupported
      THEN [NoResponse EXCEPT
              !.status = 500,
              !.detail = "Unsupported data type error (datetime/datetimeoffset)",
              !.hint = IF examples # {} THEN "CAST these columns"
                       ELSE "CAST datetime columns",
              !.cast = examples]
      ELSE [NoResponse EXCEPT !.status = 500,
                              !.detail = "Failed to execute SQL query"]

\* the dict the handler returns
SuccessResponse(cols, rows) ==
  [NoResponse EXCEPT !.status = 200, !.success = TRUE, !.columns = cols,
                     !.rows = rows, !.total = Len(rows)]

\* a key of a dict that is missing or None (has = FALSE), or a string
NoKey == [has |-> FALSE, chars |-> <<>>]
StrKey(chars) == [has |-> TRUE, chars |-> chars]

\* a chartConfig entry: missing or None ("absent"), a value that is not a
\* dict ("other"), or a dict with its xKey, yKey and type entries
NoChartConfig == [kind |-> "absent", xKey |-> NoKey, yKey |-> NoKey, type |-> NoKey]

\* a chart_data entry: missing, or a dict of labels, values and type
NoChartData == [has |-> FALSE, labels |-> <<>>, values |-> <<>>, type |-> <<>>]

\* the chartConfig and chart_data entries of a header configuration
NoHeaderConfig == [chartConfig |-> NoChartConfig, chart_data |-> NoChartData]

\* the query stage of the dynamic report handlers has not run
ShapeIdle ==
  /\ header_config = NoHeaderConfig
  /\ column_names = <<>>
  /\ dyn_rows = <<>>
  /\ data_rows_dict = <<>>
  /\ out_columns = <<>>
  /\ out_rows = <<>>
  /\ total_rows = 0
  /\ merged_config = NoHeaderConfig
  /\ chart_type = <<>>
  /\ x_col_match = <<>>
  /\ y_col_match = <<>>
  /\ chart_path = "none"
  /\ rendered = FALSE

\* the dynamic report handlers are not running
DynIdle ==
  /\ handler = "none"
  /\ dpc = "idle"
  /\ req_tables = <<>>
  /\ req_columns = <<>>
  /\ valid_columns = <<>>
  /\ builder_args = <<>>
  /\ dconn = "none"
  /\ dcursor = "none"
  /\ dresponse = [status |-> 0, detail |-> ""]
  /\ plimit = [kind |-> "absent", n |-> 0]
  /\ preview_limit = 0
  /\ ShapeIdle

\* execute_sql_query is not running
ExecIdle ==
  /\ sql = <<>>
  /\ limit = [kind |-> "absent", n |-> 0]
  /\ pc = "idle"
  /\ max_rows = 0
  /\ conn = "none"
  /\ cursor = "none"
  /\ connects = 0
  /\ rs = NoResultSet
  /\ columns = <<>>
  /\ result_rows = <<>>
  /\ row_count = 0
  /\ fetched = 0
  /\ path = "none"
  /\ odbcAt = "none"
  /\ badRow = 0
  /\ colFaults = {}
  /\ response = NoResponse

ExecInit ==
  /\ DynIdle
  /\ RestIdle
  /\ sql \in SqlTexts
  /\ limit \in LimitInputs
  /\ pc = "start"
  /\ max_rows = 0
  /\ conn = "none"
  /\ cursor = "none"
  /\ connects = 0
  /\ rs = NoResultSet
  /\ columns = <<>>
  /\ result_rows = <<>>
  /\ row_count = 0
  /\ fetched = 0
  /\ path = "none"
  /\ odbcAt = "none"
  /\ badRow = 0
  /\ colFaults = {}
  /\ response = NoResponse

\* lines 1207-1234: the body is read, the limit converted, the text checked
ExecParse ==
  /\ pc = "start"
  /\ IF LimitRaises(limit)
     THEN /\ response' = ErrorResponse(sql, FALSE)
          /\ pc' = "done"
          /\ UNCHANGED max_rows
     ELSE LET v == ValidateSql(sql)
          IN  IF v.ok
              THEN /\ max_rows' = LimitValue(limit)
                   /\ pc' = "connect"
                   /\ UNCHANGED response
              ELSE /\ response' = Rejection(v)
                   /\ pc' = "done"
                   /\ UNCHANGED max_rows
  /\ UNCHANGED << dynVars, restVars >>
  /\ UNCHANGED << sql, limit, conn, cursor, connects, rs, columns, result_rows,
                  row_count, fetched, path, odbcAt, badRow, colFaults >>

\* line 1279: pyodbc.connect returns a connection or raises
ExecConnect ==
  /\ pc = "connect"
  /\ connects' = connects + 1
  /\ \/ /\ conn' = "open"
        /\ pc' = "cursor"
        /\ UNCHANGED response
     \/ /\ response' = ErrorResponse(sql, FALSE)
        /\ pc' = "done"
        /\ UNCHANGED conn
  /\ UNCHANGED << dynVars, restVars >>
  /\ UNCHANGED << sql, limit, max_rows, cursor, rs, columns, result_rows, row_count,
                  fetched, path, odbcAt, badRow, colFaults >>

\* line 1280: conn.cursor() returns a cursor or raises; the statement is
\* outside the try/finally that closes the connection
ExecCursor ==
  /\ pc = "cursor"
  /\ \/ /\ cursor' = "open"
        /\ pc' = "execute"
        /\ UNCHANGED response
     \/ /\ response' = ErrorResponse(sql, FALSE)
        /\ pc' = "done"
        /\ UNCHANGED cursor
  /\ UNCHANGED << dynVars, restVars >>
  /\ UNCHANGED << sql, limit, max_rows, conn, connects, rs, columns, result_rows,
                  row_count, fetched, path, odbcAt, badRow, colFaults >>

\* lines 1299-1303 with the finally block at 1368-1370: cursor.execute
\* runs the query and the column names are read, or it raises, the cursor
\* and the connection are closed and the outer handler answers
ExecExecute ==
  /\ pc = "execute"
  /\ \/ \E r \in ResultSets :
          /\ rs' = r
          /\ columns' = r.columns
          /\ pc' = "fetchall"
          /\ UNCHANGED << conn, cursor, odbcAt, response >>
     \/ \E unsupported \in BOOLEAN :
          /\ odbcAt' = IF unsupported THEN "execute" ELSE odbcAt
          /\ cursor' = "closed"
          /\ conn' = "closed"
          /\ response' = ErrorResponse(sql, unsupported)
          /\ pc' = "done"
          /\ UNCHANGED << rs, columns >>
  /\ UNCHANGED << dynVars, restVars >>
  /\ UNCHANGED << sql, limit, max_rows, connects, result_rows, row_count, fetched,
                  path, badRow, colFaults >>

\* the bulk path without the slice: every fetched row is returned
BulkRowsUnlimited(cols, rows, k) ==
  [i \in 1..Len(rows) |-> BulkRow(cols, rows[i])]

\* the rows the bulk path returns: one row_dict per row of rows[:max_rows]
BulkRows(cols, rows, k) ==
  LET kept == PySliceTo(rows, k)
  IN  [i \in 1..Len(kept) |-> BulkRow(cols, kept[i])]

\* lines 1310-1319, 1359-1370: fetchall succeeds, the first max_rows rows
\* are converted, the response is built and the finally block closes the
\* cursor and the connection
ExecFetchAll ==
  /\ pc = "fetchall"
  /\ path' = "bulk"
  /\ result_rows' = BulkRows(columns, rs.rows, max_rows)
  /\ row_count' = Len(result_rows')
  /\ response' = SuccessResponse(columns, result_rows')
  /\ cursor' = "closed"
  /\ conn' = "closed"
  /\ pc' = "done"
  /\ UNCHANGED << dynVars, restVars >>
  /\ UNCHANGED << sql, limit, max_rows, connects, rs, columns, fetched, odbcAt,
                  badRow, colFaults >>

\* lines 1320-1325: fetchall raises (the driver's unsupported-type error
\* or another one); the cursor is closed, a new one is created and the
\* query is executed again.  Either both succeed; or conn.cursor() raises
\* with `cursor` still bound to the closed cursor, so that the finally
\* block's cursor.close() raises (conn.close() is skipped) or does
\* nothing; or the second cursor.execute raises and the finally block
\* closes the new cursor and the connection
ExecFetchAllRaises ==
  /\ pc = "fetchall"
  /\ path' = "fallback"
  /\ \E unsupported \in BOOLEAN :
       \/ /\ odbcAt' = IF unsupported THEN "fetch" ELSE odbcAt
          /\ cursor' = "open"
          /\ pc' = "fallback"
          /\ UNCHANGED << conn, response >>
       \/ /\ odbcAt' = IF unsupported THEN "fetch" ELSE odbcAt
          /\ cursor' = "closed"
          /\ conn' \in {"open", "closed"}
          /\ response' = ErrorResponse(sql, FALSE)
          /\ pc' = "done"
       \/ \E again \in BOOLEAN :
            /\ odbcAt' = IF again THEN "execute"
                         ELSE IF unsupported THEN "fetch" ELSE odbcAt
            /\ cursor' = "closed"
            /\ conn' = "closed"
            /\ response' = ErrorResponse(sql, again)
            /\ pc' = "done"
  /\ UNCHANGED << dynVars, restVars >>
  /\ UNCHANGED << sql, limit, max_rows, connects, rs, columns, result_rows,
                  row_count, fetched, badRow, colFaults >>

\* outcomes of reading the columns of one fetched row, within the budget
\* of column reads that raise
AccessOutcomes(ncols, budget) ==
  { a \in [1..ncols -> {"ok", "unsupported", "error"}] :
      Cardinality({j \in 1..ncols : a[j] # "ok"}) <= budget }

\* a row error that skips the row and goes on with the next one
OnRowErrorContinue(f) == [pc |-> "fallback", fetched |-> f + 1]

\* lines 1353-1357: fetchone raised after f rows were handed out; the
\* `break` leaves the loop, the row and those after it are not fetched
OnRowError(f) == [pc |-> "return", fetched |-> f]

\* lines 1327-1357: one iteration of the row-by-row loop
ExecFetchOne ==
  /\ pc = "fallback"
  /\ row_count < max_rows
  /\ \/ /\ fetched < Len(rs.rows)
        /\ badRow' = fetched + 1
        /\ pc' = OnRowError(fetched).pc
        /\ fetched' = OnRowError(fetched).fetched
        /\ UNCHANGED << result_rows, row_count, colFaults >>
     \/ /\ fetched = Len(rs.rows)
        /\ pc' = "return"
        /\ UNCHANGED << result_rows, row_count, fetched, badRow, colFaults >>
     \/ /\ fetched < Len(rs.rows)
        /\ \E access \in AccessOutcomes(Len(columns),
                                        MaxColFaults - Cardinality(colFaults)) :
             LET row_dict == FallbackRow(columns, rs.rows[fetched + 1], access)
             IN  /\ colFaults' = colFaults \cup
                      {<<fetched + 1, j>> : j \in {k \in 1..Len(columns) :
                                                     access[k] # "ok"}}
                 /\ IF DOMAIN row_dict # {}
                    THEN /\ result_rows' = Append(result_rows, row_dict)
                         /\ row_count' = row_count + 1
                    ELSE UNCHANGED << result_rows, row_count >>
        /\ fetched' = fetched + 1
        /\ UNCHANGED << pc, badRow >>
  /\ UNCHANGED << dynVars, restVars >>
  /\ UNCHANGED << sql, limit, max_rows, conn, cursor, connects, rs, columns, path,
                  odbcAt, response >>

\* lines 1359-1370 after the loop: the response is built and the finally
\* block closes the cursor and the connection
ExecReturn ==
  /\ \/ pc = "return"
     \/ pc = "fallback" /\ ~(row_count < max_rows)
  /\ response' = SuccessResponse(columns, result_rows)
  /\ cursor' = "closed"
  /\ conn' = "closed"
  /\ pc' = "done"
  /\ UNCHANGED << dynVars, restVars >>
  /\ UNCHANGED << sql, limit, max_rows, connects, rs, columns, result_rows,
                  row_count, fetched, path, odbcAt, badRow, colFaults >>

ExecNext ==
  \/ ExecParse
  \/ ExecConnect
  \/ ExecCursor
  \/ ExecExecute
  \/ ExecFetchAll
  \/ ExecFetchAllRaises
  \/ ExecFetchOne
  \/ ExecReturn

vars == << execVars, dynVars, restVars >>

SpecExec == ExecInit /\ [][ExecNext]_vars

(***************************************************************************)
(* generate_dynamic_report and preview_dynamic_report: the request stage   *)
(* up to the query, and the release of the connection.                     *)
(***************************************************************************)
colIndex == <<"#">>

\* entries of body['columns']
ColumnEntries ==
  { colIndex, <<>>, <<" ">>, <<"a">>, <<"b">>, <<" ", "#">> }

ColumnRequests == UNION {[1..n -> ColumnEntries] : n \in 0..MaxCols}

TableRequests == { <<>>, <<"T">> }

\* the column list as requested
ColumnsUnfiltered(cols) == cols

\* [col for col in columns if col != '#']
ColumnsWithoutIndexOnly(cols) == SelectSeq(cols, LAMBDA col : col # colIndex)

\* [col for col in columns if col != '#' and col.strip() != '']
FilterColumns(cols) ==
  SelectSeq(cols, LAMBDA col : col # colIndex /\ PyStrip(col) # <<>>)

DynResponse(status, detail) == [status |-> status, detail |-> detail]

DefaultPreviewLimit == 200

\* int(body.get('previewLimit', 200)) of a value int() converts
PreviewLimitValue(lim) == IF lim.kind = "absent" THEN DefaultPreviewLimit ELSE lim.n

DynInit ==
  /\ ExecIdle
  /\ RestIdle
  /\ handler \in {"generate", "preview"}
  /\ dpc = "start"
  /\ req_tables \in TableRequests
  /\ req_columns \in ColumnRequests
  /\ valid_columns = <<>>
  /\ builder_args = <<>>
  /\ dconn = "none"
  /\ dcursor = "none"
  /\ dresponse = DynResponse(0, "")
  /\ plimit \in (IF handler = "preview" THEN LimitInputs
                 ELSE {[kind |-> "absent", n |-> 0]})
  /\ preview_limit = 0
  /\ ShapeIdle

\* generate_dynamic_report, lines 327-362: the body is read, the columns
\* are filtered and the request is checked
GenerateParse ==
  /\ handler = "generate"
  /\ dpc = "start"
  /\ valid_columns' = FilterColumns(req_columns)
  /\ IF req_tables = <<>> \/ valid_columns' = <<>>
     THEN /\ dresponse' = DynResponse(400, "Tables and valid columns are required")
          /\ dpc' = "done"
     ELSE /\ dpc' = "build"
          /\ UNCHANGED dresponse
  /\ UNCHANGED << handler, req_tables, req_columns, builder_args, dconn, dcursor,
                  plimit, preview_limit >>
  /\ UNCHANGED shapeVars
  /\ UNCHANGED << execVars, restVars >>

\* preview_dynamic_report, lines 760-777: int(previewLimit) is evaluated
\* while the body is read, before the request is checked; its ValueError
\* reaches the handler's `except Exception`
PreviewParse ==
  /\ handler = "preview"
  /\ dpc = "start"
  /\ IF LimitRaises(plimit)
     THEN /\ dresponse' = DynResponse(500, "Failed to preview dynamic report")
          /\ dpc' = "done"
          /\ UNCHANGED << valid_columns, preview_limit >>
     ELSE /\ preview_limit' = PreviewLimitValue(plimit)
          /\ IF req_tables = <<>> \/ req_columns = <<>>
             THEN /\ dresponse' = DynResponse(400, "Tables and columns are required")
                  /\ dpc' = "done"
                  /\ UNCHANGED valid_columns
             ELSE /\ valid_columns' = FilterColumns(req_columns)
                  /\ IF valid_columns' = <<>>
                     THEN /\ dresponse' =
                               DynResponse(400, "No valid columns provided (excluding '#')")
                          /\ dpc' = "done"
                     ELSE /\ dpc' = "build"
                          /\ UNCHANGED dresponse
  /\ UNCHANGED << handler, req_tables, req_columns, builder_args, dconn, dcursor,
                  plimit >>
  /\ UNCHANGED shapeVars
  /\ UNCHANGED << execVars, restVars >>

\* lines 365-370 and 780-785: build_dynamic_sql_query is called with
\* valid_columns and returns the query or raises
DynBuild ==
  /\ dpc = "build"
  /\ builder_args' = Append(builder_args, valid_columns)
  /\ \/ /\ dpc' = "connect"
        /\ UNCHANGED dresponse
     \/ /\ dresponse' = DynResponse(400, "Failed to build SQL query")
        /\ dpc' = "done"
  /\ UNCHANGED << handler, req_tables, req_columns, valid_columns, dconn, dcursor,
                  plimit, preview_limit >>
  /\ UNCHANGED shapeVars
  /\ UNCHANGED << execVars, restVars >>

\* lines 376-382 and 791-797: pyodbc.connect raises; or it returns and
\* conn.cursor() raises, and the handler answers 500 without closing the
\* connection; or both return
DynConnect ==
  /\ dpc = "connect"
  /\ \/ /\ dresponse' = DynResponse(500, "Database connection failed")
        /\ dpc' = "done"
        /\ UNCHANGED << dconn, dcursor >>
     \/ /\ dconn' = "open"
        /\ dresponse' = DynResponse(500, "Database connection failed")
        /\ dpc' = "done"
        /\ UNCHANGED dcursor
     \/ /\ dconn' = "open"
        /\ dcursor' = "open"
        /\ dpc' = "query"
        /\ UNCHANGED dresponse
  /\ UNCHANGED << handler, req_tables, req_columns, valid_columns, builder_args,
                  plimit, preview_limit >>
  /\ UNCHANGED shapeVars
  /\ UNCHANGED << execVars, restVars >>

\* lines 384-742 and 799-825: the query runs and the response is built, or
\* an exception is raised; the finally block closes cursor and connection.
\* The steps of this stage are GenFetch to GenRender and PreviewFetch
\* below; here only its outcome and the release of the connection count
DynQuery ==
  /\ dpc = "query"
  /\ dcursor' = "closed"
  /\ dconn' = "closed"
  /\ \/ dresponse' = DynResponse(200, "")
     \/ dresponse' = DynResponse(500, IF handler = "generate"
                                      THEN "Failed to generate dynamic report"
                                      ELSE "Failed to preview dynamic report")
  /\ dpc' = "done"
  /\ UNCHANGED << handler, req_tables, req_columns, valid_columns, builder_args,
                  plimit, preview_limit >>
  /\ UNCHANGED shapeVars
  /\ UNCHANGED << execVars, restVars >>

DynNext ==
  \/ GenerateParse
  \/ PreviewParse
  \/ DynBuild
  \/ DynConnect
  \/ DynQuery

SpecDyn == DynInit /\ [][DynNext]_vars

(***************************************************************************)
(* generate_dynamic_report and preview_dynamic_report: the query stage.    *)
(* Column names, keys, cell strings and labels are sequences of            *)
(* characters.                                                             *)
(***************************************************************************)
\* the cells of a fetched row: None, a str, or a non-negative int
NoneCell == [t |-> "none", n |-> 0, chars |-> <<>>]
StrCell(chars) == [t |-> "str", n |-> 0, chars |-> chars]
IntCell(n) == [t |-> "int", n |-> n, chars |-> <<>>]

\* a float with a whole value, and the floats nan and inf
FloatValue(n) == [t |-> "float", n |-> n, chars |-> <<>>]
SpecialFloat(chars) == [t |-> "float", n |-> 0, chars |-> chars]

RECURSIVE NatChars(_)
\* str(n) of a natural number
NatChars(n) ==
  IF n < 10 THEN <<DigitChars[n + 1]>>
  ELSE NatChars(n \div 10) \o <<DigitChars[(n % 10) + 1]>>

\* str(cell) of a cell that is not None
PyStr(cell) == IF cell.t = "str" THEN cell.chars ELSE NatChars(cell.n)

\* str(cell) if cell is not None else ''
CellString(cell) == IF cell.t = "none" THEN <<>> ELSE PyStr(cell)

\* the dict of one row: row_dict[col_name] = cell for idx = 0, 1, ...
DynRowDict(names, row) == RowDict(names, row)

\* data_rows: the list of the rows' cell strings
DataRows(fetched_rows) ==
  [i \in 1..Len(fetched_rows) |->
     [j \in 1..Len(fetched_rows[i]) |-> CellString(fetched_rows[i][j])]]

\* an index column counted from 0
IndexFromZero(idx) == NatChars(idx - 1)

\* str(idx) of enumerate(..., start=1)
IndexString(idx) == NatChars(idx)

\* data_rows_with_index
WithIndex(data_rows) ==
  [i \in 1..Len(data_rows) |-> <<IndexString(i)>> \o data_rows[i]]

\* row_dict[index_column_name] = str(idx)
WithIndexKey(row_dict, idx) ==
  [c \in (DOMAIN row_dict) \cup {colIndex} |->
     IF c = colIndex THEN StrCell(IndexString(idx)) ELSE row_dict[c]]

RECURSIVE FirstSeen(_)
\* the distinct members of seq in the order of their first occurrence: the
\* keys of a dict, or of a Counter, filled in the order of seq
FirstSeen(seq) ==
  IF seq = <<>> THEN <<>>
  ELSE LET init == FirstSeen(SubSeq(seq, 1, Len(seq) - 1))
           last == seq[Len(seq)]
       IN  IF last \in RangeOf(init) THEN init ELSE Append(init, last)

\* list(data_rows_dict[0].keys())
AvailableCols(names) == FirstSeen(names \o <<colIndex>>)

\* s.split('.')[-1]
SplitLast(s) ==
  LET dots == {i \in 1..Len(s) : s[i] = "."}
  IN  IF dots = {} THEN s
      ELSE SubSeq(s, (CHOOSE i \in dots : \A k \in dots : k <= i) + 1, Len(s))

\* s.split('.')[-1].lower() if '.' in s else s.lower()
Normalized(s) ==
  IF "." \in RangeOf(s) THEN PyLower(SplitLast(s)) ELSE PyLower(s)

\* the if/elif chain of the matching loop accepts col for key
ColMatches(col, key) ==
  \/ col = key
  \/ Normalized(col) = Normalized(key)
  \/ PyLower(col) = PyLower(key)

\* x_col_match (y_col_match) after the loop over available_cols; <<>> is
\* None
ResolveKey(available_cols, key) ==
  IF key = colIndex \/ Normalized(key) = colIndex THEN colIndex
  ELSE LET hits == {i \in 1..Len(available_cols) :
                      ColMatches(available_cols[i], key)}
       IN  IF hits = {} THEN <<>>
           ELSE available_cols[CHOOSE i \in hits : \A k \in hits : i <= k]

txtNone == <<"n","o","n","e">>
txtPie == <<"p","i","e">>
txtBar == <<"b","a","r">>
txtLine == <<"l","i","n","e">>

\* a key that only has to be truthy
KeyTruthy(key) == key.has /\ key.chars # <<>>

\* `if key_val:` and str(key_val).strip() is neither '' nor 'none'
KeyUsable(key) ==
  /\ key.has
  /\ key.chars # <<>>
  /\ PyStrip(key.chars) # <<>>
  /\ PyLower(PyStrip(key.chars)) # txtNone

\* get_default_header_config("dynamic"): the defaults hold neither a
\* chartConfig nor a chart_data entry
default_config == NoHeaderConfig

\* {**default_config, **header_config}
MergeConfig(defaults, header) ==
  [ chartConfig |-> IF header.chartConfig.kind # "absent"
                    THEN header.chartConfig ELSE defaults.chartConfig,
    chart_data  |-> IF header.chart_data.has
                    THEN header.chart_data ELSE defaults.chart_data ]

\* chart_config after the filter of lines 452-457: None for a dict with
\* neither xKey nor yKey
FilteredChartConfig(raw) ==
  IF raw.kind = "dict"
       /\ ~(raw.xKey.has /\ raw.xKey.chars # <<>>)
       /\ ~(raw.yKey.has /\ raw.yKey.chars # <<>>)
  THEN NoChartConfig ELSE raw

\* has_chart_config and has_x_key and has_y_key and has_data
ChartGate(chart_config, dicts) ==
  /\ chart_config.kind = "dict"
  /\ KeyUsable(chart_config.xKey)
  /\ KeyUsable(chart_config.yKey)
  /\ Len(dicts) > 0

txtNan == <<"n","a","n">>
txtInf == <<"i","n","f">>
txtInfinity == <<"i","n","f","i","n","i","t","y">>

DigitSet == RangeOf(DigitChars)

RECURSIVE DigitsValue(_)
\* the number a sequence of decimal digits writes
DigitsValue(ds) ==
  IF ds = <<>> THEN 0
  ELSE 10 * DigitsValue(SubSeq(ds, 1, Len(ds) - 1))
         + (CHOOSE d \in 0..9 : DigitChars[d + 1] = ds[Len(ds)])

\* float(s) of a str: surrounding whitespace and a sign are accepted, then
\* decimal digits, or nan, inf, infinity in any case; anything else among
\* the cells of the model (a word, an empty string) raises ValueError
FloatOfStr(chars) ==
  LET s == PyStrip(chars)
      signed == s # <<>> /\ s[1] \in {"+", "-"}
      body == IF signed THEN Tail(s) ELSE s
  IN  IF body # <<>> /\ \A i \in 1..Len(body) : body[i] \in DigitSet
      THEN [ok |-> TRUE,
            value |-> FloatValue(IF signed /\ s[1] = "-"
                                 THEN 0 - DigitsValue(body) ELSE DigitsValue(body))]
      ELSE IF PyLower(body) \in {txtNan, txtInf, txtInfinity}
      THEN [ok |-> TRUE, value |-> SpecialFloat(PyLower(s))]
      ELSE [ok |-> FALSE, value |-> NoneCell]

\* float(y_val) if not isinstance(y_val, (int, float)) else y_val, for a
\* y_val that is not None; ok is FALSE when ValueError is raised
NumericOf(y_val) ==
  IF y_val.t = "int" THEN [ok |-> TRUE, value |-> y_val]
  ELSE FloatOfStr(y_val.chars)

\* row_dict.get(col)
DictGet(row_dict, col) ==
  IF col \in DOMAIN row_dict THEN row_dict[col] ELSE NoneCell

\* [str(v) for each row_dict if (v := row_dict.get(col)) is not None]
NonNullStrings(dicts, col) ==
  LET vals == [i \in 1..Len(dicts) |-> DictGet(dicts[i], col)]
      kept == SelectSeq(vals, LAMBDA v : v.t # "none")
  IN  [i \in 1..Len(kept) |-> PyStr(kept[i])]

\* [str(v) for each row_dict], None included
AllStrings(dicts, col) ==
  [i \in 1..Len(dicts) |->
     LET v == DictGet(dicts[i], col)
     IN  IF v.t = "none" THEN <<"N","o","n","e">> ELSE PyStr(v)]

\* Counter(strings): keys() in first-seen order, values() their counts
CounterOf(strings) ==
  LET keys == FirstSeen(strings)
  IN  [ labels |-> keys,
        values |-> [k \in 1..Len(keys) |->
                      IntCell(Cardinality({i \in 1..Len(strings) :
                                             strings[i] = keys[k]}))] ]

\* a count that takes None for a value of its own
CountByXWithNulls(dicts, xcol) == CounterOf(AllStrings(dicts, xcol))

\* lines 538-550: the occurrences of each x value
CountByX(dicts, xcol) == CounterOf(NonNullStrings(dicts, xcol))

\* a distribution that lists each value once without counting it
DistributionOnes(dicts, ycol) ==
  LET keys == FirstSeen(NonNullStrings(dicts, ycol))
  IN  [labels |-> keys, values |-> [k \in 1..Len(keys) |-> IntCell(1)]]

\* lines 577-588: the occurrences of each y value
DistributionByY(dicts, ycol) == CounterOf(NonNullStrings(dicts, ycol))

\* rows of the numeric check's sample
SampleSize == 10

\* is_y_numeric: float() accepts the first value of the sample that is
\* not None
IsYNumeric(dicts, ycol) ==
  LET sample == SelectSeq([i \in 1..Len(PySliceTo(dicts, SampleSize)) |->
                             DictGet(dicts[i], ycol)],
                          LAMBDA v : v.t # "none")
  IN  sample # <<>> /\ NumericOf(sample[1]).ok

\* a row whose y value does not convert ends the extraction with nothing
RowPairsFatal(dicts, xcol, ycol) ==
  LET bad == \E i \in 1..Len(dicts) :
               /\ DictGet(dicts[i], ycol).t # "none"
               /\ ~NumericOf(DictGet(dicts[i], ycol)).ok
      paired == SelectSeq(dicts, LAMBDA d :
              DictGet(d, xcol).t # "none" /\ DictGet(d, ycol).t # "none")
  IN  IF bad THEN [labels |-> <<>>, values |-> <<>>]
      ELSE [ labels |-> [i \in 1..Len(paired) |-> PyStr(DictGet(paired[i], xcol))],
             values |-> [i \in 1..Len(paired) |-> NumericOf(DictGet(paired[i], ycol)).value] ]

\* a row whose y value does not convert is kept with the value 0
RowPairsKeepBad(dicts, xcol, ycol) ==
  LET paired == SelectSeq(dicts, LAMBDA d :
              DictGet(d, xcol).t # "none" /\ DictGet(d, ycol).t # "none")
  IN  [ labels |-> [i \in 1..Len(paired) |-> PyStr(DictGet(paired[i], xcol))],
        values |-> [i \in 1..Len(paired) |->
                      IF NumericOf(DictGet(paired[i], ycol)).ok
                      THEN NumericOf(DictGet(paired[i], ycol)).value
                      ELSE FloatValue(0)] ]

\* lines 592-604: one label and one value for each row whose x and y are
\* not None and whose y converts
RowPairs(dicts, xcol, ycol) ==
  LET paired == SelectSeq(dicts, LAMBDA d :
              /\ DictGet(d, xcol).t # "none"
              /\ DictGet(d, ycol).t # "none"
              /\ NumericOf(DictGet(d, ycol)).ok)
  IN  [ labels |-> [i \in 1..Len(paired) |-> PyStr(DictGet(paired[i], xcol))],
        values |-> [i \in 1..Len(paired) |-> NumericOf(DictGet(paired[i], ycol)).value] ]

\* lines 536-604: the branch taken, with its labels and values
ChartExtract(dicts, xcol, ycol, type) ==
  IF ycol = colIndex
  THEN [path |-> "count", data |-> CountByX(dicts, xcol)]
  ELSE IF ~IsYNumeric(dicts, ycol) /\ type = txtPie
  THEN [path |-> "distribution", data |-> DistributionByY(dicts, ycol)]
  ELSE [path |-> "rows", data |-> RowPairs(dicts, xcol, ycol)]

\* chart_data written whatever the labels and values
ChartDataAlways(old, labels, values, type) ==
  [has |-> TRUE, labels |-> labels, values |-> values, type |-> type]

\* lines 606-616: merged_config['chart_data'] after the extraction
ChartDataOf(old, labels, values, type) ==
  IF Len(labels) > 0 /\ Len(values) > 0
  THEN [has |-> TRUE, labels |-> labels, values |-> values, type |-> type]
  ELSE old

(***************************************************************************)
(* The requests and the tables of the query stage.                         *)
(***************************************************************************)
txtMonth == <<"m","o","n","t","h">>
txtCount == <<"c","o","u","n","t">>
txtStatus == <<"s","t","a","t","u","s">>
txtStatusUpper == <<"S","T","A","T","U","S">>
txtTStatus == <<"T",".","s","t","a","t","u","s">>
txtUStatus == <<"U",".","s","t","a","t","u","s">>
txtNameCap == <<"N","a","m","e">>
txtNameLow == <<"n","a","m","e">>
txtNameUpper == <<"N","A","M","E">>
txtTNameLow == <<"T",".","n","a","m","e">>
txtMissing == <<"m","i","s","s","i","n","g">>
txtJan == <<"J","a","n">>
txtFeb == <<"F","e","b">>
txtOpen == <<"o","p","e","n">>
txtClosed == <<"c","l","o","s","e","d">>
txtBad == <<"b","a","d">>

\* the values the tables hold in a column
ColumnValues(col) ==
  CASE Normalized(col) = txtMonth  -> {NoneCell, StrCell(txtJan), StrCell(txtFeb)}
    [] Normalized(col) = txtCount  -> {NoneCell, StrCell(<<"5">>), StrCell(txtBad)}
    [] Normalized(col) = txtStatus -> {NoneCell, StrCell(txtOpen), StrCell(txtClosed)}
    [] col = txtNameCap            -> {IntCell(7)}
    [] col = txtNone               -> {StrCell(txtOpen)}
    [] OTHER                       -> {StrCell(<<"1","2">>)}

ShapeCells ==
  { NoneCell, StrCell(txtJan), StrCell(txtFeb), StrCell(<<"5">>), StrCell(txtBad),
    StrCell(txtOpen), StrCell(txtClosed), IntCell(7), StrCell(<<"1","2">>) }

\* a result of month and count longer than the sample of the numeric
\* check: no count in the rows of the sample, a count after them
LongResult ==
  [i \in 1..(SampleSize + 1) |->
     IF i <= SampleSize THEN <<StrCell(txtJan), NoneCell>>
     ELSE <<StrCell(txtFeb), StrCell(<<"5">>)>>]

\* the rows a query for the columns names can return
ResultRows(names) ==
  LET row_set == {r \in [1..Len(names) -> ShapeCells] :
                    \A j \in 1..Len(names) : r[j] \in ColumnValues(names[j])}
  IN  UNION {[1..n -> row_set] : n \in 0..MaxRows}
        \cup (IF names = <<txtMonth, txtCount>> THEN {LongResult} ELSE {})

\* cursor.description names the result columns as the query selects them:
\* by the requested identifier, or by its part after the table qualifier
DescriptionNames(selected) ==
  { selected, [j \in 1..Len(selected) |-> SplitLast(selected[j])] }

ChartConfigDict(x, y, type) ==
  [kind |-> "dict", xKey |-> x, yKey |-> y, type |-> type]

\* a chart_data entry a client put into headerConfig itself
ClientChartData ==
  [has |-> TRUE, labels |-> <<txtMissing>>, values |-> <<IntCell(1)>>, type |-> txtBar]

ChartTypes == {StrKey(txtPie), StrKey(txtLine)}

\* bodies of generate requests: body['columns'] and body['headerConfig']
MonthCountBodies ==
  { [columns |-> <<txtMonth, txtCount>>,
     headerConfig |-> [chartConfig |-> ChartConfigDict(StrKey(txtMonth), y, type),
                       chart_data |-> NoChartData]] :
      y \in {StrKey(txtCount), StrKey(colIndex)}, type \in ChartTypes }

StatusKeys ==
  { NoKey, StrKey(<<>>), StrKey(<<" ">>), StrKey(<<"N","o","n","e">>),
    StrKey(<<" ">> \o txtStatus \o <<" ">>), StrKey(txtStatusUpper),
    StrKey(txtTStatus), StrKey(colIndex), StrKey(txtMissing) }

StatusBodies ==
  { [columns |-> <<colIndex, txtStatus>>,
     headerConfig |-> [chartConfig |-> cc, chart_data |-> cd]] :
      cc \in { ChartConfigDict(x, y, type) :
                 x \in StatusKeys,
                 y \in {NoKey, StrKey(colIndex), StrKey(txtStatus), StrKey(txtNone)},
                 type \in {NoKey, StrKey(txtPie)} }
            \cup { NoChartConfig, [NoChartConfig EXCEPT !.kind = "other"] },
      cd \in {NoChartData, ClientChartData} }

NameKeys ==
  { StrKey(txtNameCap), StrKey(txtNameLow), StrKey(txtNameUpper), StrKey(txtTNameLow) }

NameBodies ==
  { [columns |-> <<txtNameCap, txtNameLow>>,
     headerConfig |-> [chartConfig |-> ChartConfigDict(x, y, NoKey),
                       chart_data |-> NoChartData]] :
      x \in NameKeys, y \in NameKeys \cup {StrKey(colIndex)} }

QualifiedBodies ==
  { [columns |-> <<txtTStatus, <<" ">>>>,
     headerConfig |-> [chartConfig |-> ChartConfigDict(x, StrKey(colIndex), NoKey),
                       chart_data |-> NoChartData]] :
      x \in {StrKey(txtStatus), StrKey(txtTStatus), StrKey(txtUStatus)} }

\* a table with a column that is itself named none
NoneColumnBodies ==
  { [columns |-> <<txtNone>>,
     headerConfig |-> [chartConfig |-> ChartConfigDict(x, StrKey(colIndex), NoKey),
                       chart_data |-> NoChartData]] :
      x \in {StrKey(txtNone), StrKey(<<"N","o","n","e">>)} }

GenerateBodies ==
  MonthCountBodies \cup StatusBodies \cup NameBodies \cup QualifiedBodies
    \cup NoneColumnBodies

\* bodies of preview requests: body['columns'] and an integer
\* body['previewLimit']
PreviewBodies ==
  { [columns |-> cols, previewLimit |-> lim] :
      cols \in { <<txtStatus>>, <<colIndex, txtStatus>>, <<txtStatus, <<" ">>>>,
                 <<<<" ">>, txtStatus>>, <<txtNameCap, colIndex, txtNameLow>> },
      lim \in {l \in LimitInputs : ~LimitRaises(l)} }

\* dict(zip(keys, vals)): as many entries as the shorter list has, a later
\* entry of the same key replacing an earlier one
ZipDict(keys, vals) ==
  LET n == IF Len(keys) < Len(vals) THEN Len(keys) ELSE Len(vals)
  IN  [ k \in {keys[i] : i \in 1..n} |->
          vals[CHOOSE j \in 1..n :
                 keys[j] = k /\ \A h \in 1..n : keys[h] = k => h <= j] ]

(***************************************************************************)
(* The query stage as a state machine: a handler that has validated its    *)
(* request, built the query and opened its connection and cursor.          *)
(***************************************************************************)
ShapeInit ==
  /\ ExecIdle
  /\ RestIdle
  /\ handler \in {"generate", "preview"}
  /\ dpc = "query"
  /\ req_tables = <<"T">>
  /\ \E body \in (IF handler = "generate" THEN GenerateBodies ELSE PreviewBodies) :
       /\ req_columns = body.columns
       /\ header_config = (IF handler = "generate" THEN body.headerConfig
                           ELSE NoHeaderConfig)
       /\ plimit = (IF handler = "preview" THEN body.previewLimit
                    ELSE [kind |-> "absent", n |-> 0])
  /\ preview_limit = (IF handler = "preview" THEN PreviewLimitValue(plimit) ELSE 0)
  /\ valid_columns = FilterColumns(req_columns)
  /\ builder_args = <<valid_columns>>
  /\ dconn = "open"
  /\ dcursor = "open"
  /\ dresponse = DynResponse(0, "")
  /\ column_names = <<>>
  /\ dyn_rows = <<>>
  /\ data_rows_dict = <<>>
  /\ out_columns = <<>>
  /\ out_rows = <<>>
  /\ total_rows = 0
  /\ merged_config = NoHeaderConfig
  /\ chart_type = <<>>
  /\ x_col_match = <<>>
  /\ y_col_match = <<>>
  /\ chart_path = "none"
  /\ rendered = FALSE

\* generate_dynamic_report, lines 385-422: the query runs and the rows are
\* shaped for the table and for the chart; or cursor.execute or fetchall
\* raises, the finally block closes cursor and connection and the handler
\* answers 500
GenFetch ==
  /\ handler = "generate"
  /\ dpc = "query"
  /\ \/ /\ dresponse' = DynResponse(500, "Failed to generate dynamic report")
        /\ dcursor' = "closed"
        /\ dconn' = "closed"
        /\ dpc' = "done"
        /\ UNCHANGED << column_names, dyn_rows, data_rows_dict, out_columns, out_rows >>
     \/ \E names \in DescriptionNames(valid_columns) :
        \E fetched_rows \in ResultRows(names) :
          /\ column_names' = names
          /\ dyn_rows' = fetched_rows
          /\ data_rows_dict' =
               [i \in 1..Len(fetched_rows) |->
                  WithIndexKey(DynRowDict(names, fetched_rows[i]), i)]
          /\ out_columns' = <<colIndex>> \o valid_columns
          /\ out_rows' = WithIndex(DataRows(fetched_rows))
          /\ dpc' = "config"
          /\ UNCHANGED << dresponse, dcursor, dconn >>
  /\ UNCHANGED << handler, req_tables, req_columns, valid_columns, builder_args,
                  plimit, preview_limit >>
  /\ UNCHANGED << header_config, total_rows, merged_config, chart_type,
                  x_col_match, y_col_match, chart_path, rendered >>
  /\ UNCHANGED << execVars, restVars >>

\* lines 430-484: the header configuration is merged over the defaults and
\* the chart binding is checked
GenConfig ==
  /\ handler = "generate"
  /\ dpc = "config"
  /\ merged_config' = MergeConfig(default_config, header_config)
  /\ dpc' = IF ChartGate(FilteredChartConfig(merged_config'.chartConfig),
                         data_rows_dict)
            THEN "resolve" ELSE "render"
  /\ UNCHANGED << handler, req_tables, req_columns, valid_columns, builder_args,
                  dconn, dcursor, dresponse, plimit, preview_limit >>
  /\ UNCHANGED << header_config, column_names, dyn_rows, data_rows_dict,
                  out_columns, out_rows, total_rows, chart_type, x_col_match,
                  y_col_match, chart_path, rendered >>
  /\ UNCHANGED << execVars, restVars >>

\* lines 486-535: the chart type is read and the keys are resolved against
\* the keys of the first row dict
GenResolve ==
  /\ handler = "generate"
  /\ dpc = "resolve"
  /\ LET chart_config == merged_config.chartConfig
         available_cols == AvailableCols(column_names)
     IN  /\ chart_type' = (IF chart_config.type.has
                           THEN chart_config.type.chars ELSE txtBar)
         /\ x_col_match' = ResolveKey(available_cols, PyStrip(chart_config.xKey.chars))
         /\ y_col_match' = ResolveKey(available_cols, PyStrip(chart_config.yKey.chars))
  /\ dpc' = IF x_col_match' = <<>> \/ y_col_match' = <<>>
            THEN "render" ELSE "extract"
  /\ UNCHANGED << handler, req_tables, req_columns, valid_columns, builder_args,
                  dconn, dcursor, dresponse, plimit, preview_limit >>
  /\ UNCHANGED << header_config, column_names, dyn_rows, data_rows_dict,
                  out_columns, out_rows, total_rows, merged_config, chart_path,
                  rendered >>
  /\ UNCHANGED << execVars, restVars >>

\* lines 536-616: labels and values are extracted and chart_data is
\* written when there are some
GenExtract ==
  /\ handler = "generate"
  /\ dpc = "extract"
  /\ LET e == ChartExtract(data_rows_dict, x_col_match, y_col_match, chart_type)
     IN  /\ chart_path' = e.path
         /\ merged_config' =
              [merged_config EXCEPT
                 !.chart_data = ChartDataOf(@, e.data.labels, e.data.values,
                                            chart_type)]
  /\ dpc' = "render"
  /\ UNCHANGED << handler, req_tables, req_columns, valid_columns, builder_args,
                  dconn, dcursor, dresponse, plimit, preview_limit >>
  /\ UNCHANGED << header_config, column_names, dyn_rows, data_rows_dict,
                  out_columns, out_rows, total_rows, chart_type, x_col_match,
                  y_col_match, rendered >>
  /\ UNCHANGED << execVars, restVars >>

\* lines 644-742: the renderer is called with columns, data_rows and
\* merged_config; it returns the report, which is saved and sent, or it
\* raises; the finally block closes cursor and connection
GenRender ==
  /\ handler = "generate"
  /\ dpc = "render"
  /\ rendered' = TRUE
  /\ \/ dresponse' = DynResponse(200, "")
     \/ dresponse' = DynResponse(500, "Failed to generate report")
  /\ dcursor' = "closed"
  /\ dconn' = "closed"
  /\ dpc' = "done"
  /\ UNCHANGED << handler, req_tables, req_columns, valid_columns, builder_args,
                  plimit, preview_limit >>
  /\ UNCHANGED << header_config, column_names, dyn_rows, data_rows_dict,
                  out_columns, out_rows, total_rows, merged_config, chart_type,
                  x_col_match, y_col_match, chart_path >>
  /\ UNCHANGED << execVars, restVars >>

\* rows[:preview_limit]
PreviewSlice(fetched_rows, k) == PySliceTo(fetched_rows, k)

\* preview_dynamic_report, lines 799-825: the query runs and the response
\* is built, or cursor.execute or fetchall raises; the finally block
\* closes cursor and connection
PreviewFetch ==
  /\ handler = "preview"
  /\ dpc = "query"
  /\ \/ /\ dresponse' = DynResponse(500, "Failed to preview dynamic report")
        /\ UNCHANGED << column_names, dyn_rows, out_columns, out_rows, total_rows >>
     \/ \E names \in DescriptionNames(valid_columns) :
        \E fetched_rows \in ResultRows(names) :
          LET columns_with_index == <<colIndex>> \o req_columns
              shown == PreviewSlice(fetched_rows, preview_limit)
          IN  /\ column_names' = names
              /\ dyn_rows' = fetched_rows
              /\ total_rows' = Len(fetched_rows)
              /\ out_columns' = columns_with_index
              /\ out_rows' =
                   [i \in 1..Len(shown) |->
                      ZipDict(columns_with_index,
                              <<IndexString(i)>> \o
                                [j \in 1..Len(shown[i]) |-> CellString(shown[i][j])])]
              /\ dresponse' = DynResponse(200, "")
  /\ dcursor' = "closed"
  /\ dconn' = "closed"
  /\ dpc' = "done"
  /\ UNCHANGED << handler, req_tables, req_columns, valid_columns, builder_args,
                  plimit, preview_limit >>
  /\ UNCHANGED << header_config, data_rows_dict, merged_config, chart_type,
                  x_col_match, y_col_match, chart_path, rendered >>
  /\ UNCHANGED << execVars, restVars >>

\* an exception of the chart block that leaves the handler: the outer
\* `except Exception` answers 500 and the finally block closes cursor and
\* connection
GenChartRaisesFatal ==
  /\ handler = "generate"
  /\ dpc \in {"resolve", "extract"}
  /\ dresponse' = DynResponse(500, "Failed to generate dynamic report")
  /\ dcursor' = "closed"
  /\ dconn' = "closed"
  /\ dpc' = "done"
  /\ UNCHANGED << handler, req_tables, req_columns, valid_columns, builder_args,
                  plimit, preview_limit >>
  /\ UNCHANGED shapeVars
  /\ UNCHANGED << execVars, restVars >>

\* lines 485 and 617-620: a statement of the chart block raises (str() or
\* float() of a driver value, say); `except Exception` logs the error and
\* the handler goes on to the renderer with no chart data written
GenChartRaises ==
  /\ handler = "generate"
  /\ dpc \in {"resolve", "extract"}
  /\ dpc' = "render"
  /\ UNCHANGED << handler, req_tables, req_columns, valid_columns, builder_args,
                  dconn, dcursor, dresponse, plimit, preview_limit >>
  /\ UNCHANGED shapeVars
  /\ UNCHANGED << execVars, restVars >>

ShapeNext ==
  \/ GenFetch
  \/ GenConfig
  \/ GenResolve
  \/ GenExtract
  \/ GenChartRaises
  \/ GenRender
  \/ PreviewFetch

SpecShape == ShapeInit /\ [][ShapeNext]_vars

(***************************************************************************)
(* generate_dynamic_report: the path of the requested format, from the     *)
(* body to the extension of the file and the media type of the response.   *)
(***************************************************************************)
txtExcel == << "e", "x", "c", "e", "l" >>
txtPdf == << "p", "d", "f" >>
txtWord == << "w", "o", "r", "d" >>
txtXlsx == << "x", "l", "s", "x" >>
txtXls == << "x", "l", "s" >>
txtDoc == << "d", "o", "c" >>
txtDocx == << "d", "o", "c", "x" >>
txtCsv == << "c", "s", "v" >>

\* body['format']: missing ("absent"), a string, or a value that is not a
\* string ("other": null, a number)
NoFormat == [kind |-> "absent", chars |-> <<>>]
OtherFormat == [kind |-> "other", chars |-> <<>>]
StrFormat(chars) == [kind |-> "str", chars |-> chars]

\* the format texts of the requests: names and aliases, an unknown name
\* and the empty text, in lower and upper case, padded or not
FormatTexts ==
  LET names == { txtExcel, txtPdf, txtWord, txtXlsx, txtXls, txtDoc, txtDocx,
                 txtCsv, <<>> }
      cased == names \cup { PyUpper(w) : w \in names }
  IN  cased \cup { <<" ">> \o w : w \in cased } \cup { w \o <<" ">> : w \in cased }

FormatInputs == { NoFormat, OtherFormat } \cup { StrFormat(w) : w \in FormatTexts }

\* lines 345-351: format_mapping.get(format_type, format_type)
format_mapping(w) ==
  CASE w \in { txtXlsx, txtXls } -> txtExcel
    [] w \in { txtDoc, txtDocx } -> txtWord
    [] OTHER -> w

valid_formats == { txtExcel, txtPdf, txtWord }

\* lines 333-351 alone: the format is normalised and mapped, not validated
FormatMappedOnly(raw) ==
  format_mapping(CASE raw.kind = "absent" -> txtExcel
                   [] raw.kind = "other" -> txtExcel
                   [] OTHER -> PyStrip(PyLower(raw.chars)))

\* lines 333-357: body.get('format', 'excel') is lower-cased and stripped if
\* it is a string and 'excel' otherwise, mapped, and replaced by 'excel'
\* if it is not a valid format
ResolveFormat(raw) ==
  LET normalised == CASE raw.kind = "absent" -> txtExcel
                      [] raw.kind = "other" -> txtExcel
                      [] OTHER -> PyStrip(PyLower(raw.chars))
      mapped == format_mapping(normalised)
  IN  IF mapped \in valid_formats THEN mapped ELSE txtExcel

\* lines 722-727: media_types.get(file_extension, 'application/octet-stream')
MediaTypeOf(ext) ==
  CASE ext = txtPdf -> "application/pdf"
    [] ext = txtXlsx ->
         "application/vnd.openxmlformats-officedocument.spreadsheetml.sheet"
    [] ext = txtDocx ->
         "application/vnd.openxmlformats-officedocument.wordprocessingml.document"
    [] OTHER -> "application/octet-stream"

FormatInit ==
  /\ ExecIdle
  /\ DynIdle
  /\ AccessIdle
  /\ ExportIdle
  /\ RouteIdle
  /\ ChartIdle
  /\ format_type_raw \in FormatInputs
  /\ format_type = <<>>
  /\ renderer = "none"
  /\ file_extension = <<>>
  /\ media_type = ""
  /\ fmt_status = 0
  /\ fmt_pc = "start"

\* lines 333-357: the format is read from the body and resolved
FormatParse ==
  /\ fmt_pc = "start"
  /\ format_type' = ResolveFormat(format_type_raw)
  /\ fmt_pc' = "generate"
  /\ UNCHANGED << format_type_raw, renderer, file_extension, media_type, fmt_status >>
  /\ UNCHANGED << execVars, dynVars, accessVars, exportVars, routeVars, chartVars >>

\* lines 644-676: the generator of the format is called and returns the
\* report, or it raises and the handler answers 500; a format that is none
\* of the three raises HTTPException(400, 'Unsupported format') inside the
\* try block, which `except Exception` turns into the same 500
FormatGenerate ==
  /\ fmt_pc = "generate"
  /\ IF format_type \in valid_formats
     THEN /\ renderer' = (CASE format_type = txtExcel -> "generate_excel_report"
                            [] format_type = txtWord -> "generate_word_report"
                            [] OTHER -> "generate_pdf_report")
          /\ \/ /\ file_extension' = (CASE format_type = txtExcel -> txtXlsx
                                        [] format_type = txtWord -> txtDocx
                                        [] OTHER -> txtPdf)
                /\ fmt_pc' = "respond"
                /\ UNCHANGED fmt_status
             \/ /\ file_extension' = format_type
                /\ fmt_status' = 500
                /\ fmt_pc' = "done"
     ELSE /\ renderer' = "unsupported"
          /\ file_extension' = format_type
          /\ fmt_status' = 500
          /\ fmt_pc' = "done"
  /\ UNCHANGED << format_type_raw, format_type, media_type >>
  /\ UNCHANGED << execVars, dynVars, accessVars, exportVars, routeVars, chartVars >>

\* lines 678-738: the file is saved under the extension (a failure of the
\* save is tolerated) and sent with the media type of the extension
FormatRespond ==
  /\ fmt_pc = "respond"
  /\ media_type' = MediaTypeOf(file_extension)
  /\ fmt_status' = 200
  /\ fmt_pc' = "done"
  /\ UNCHANGED << format_type_raw, format_type, renderer, file_extension >>
  /\ UNCHANGED << execVars, dynVars, accessVars, exportVars, routeVars, chartVars >>

FormatNext ==
  \/ FormatParse
  \/ FormatGenerate
  \/ FormatRespond

SpecFormat == FormatInit /\ [][FormatNext]_vars

(***************************************************************************)
(* UserFunctionAccessService: the access object of a user and the SQL      *)
(* fragments that restrict a query to the user's functions.                *)
(***************************************************************************)
txtSuperAdmin == << "s", "u", "p", "e", "r", " ", "a", "d", "m", "i", "n" >>
txtSuperadmin == << "s", "u", "p", "e", "r", "a", "d", "m", "i", "n" >>
txtSuper_Admin == << "s", "u", "p", "e", "r", "_", "a", "d", "m", "i", "n" >>
txtAdmin == << "a", "d", "m", "i", "n" >>

\* line 27
SUPER_ADMIN_GROUPS == << txtSuperAdmin, txtSuperadmin, txtSuper_Admin, txtAdmin >>

\* str.replace(old, new) for one-character old and new
PyReplaceChar(s, old, new) == [i \in 1..Len(s) |-> IF s[i] = old THEN new ELSE s[i]]

\* line 55: group_name.lower().replace('_', ' ').replace('-', ' ')
GroupLower(name) == PyReplaceChar(PyReplaceChar(PyLower(name), "_", " "), "-", " ")

\* lines 53-59: the group matches if it contains an entry of
\* SUPER_ADMIN_GROUPS or is contained in one
IsSuperAdminGroup(group) ==
  /\ group.has
  /\ group.chars # <<>>
  /\ \E k \in 1..Len(SUPER_ADMIN_GROUPS) :
       \/ PyContains(GroupLower(group.chars), SUPER_ADMIN_GROUPS[k])
       \/ PyContains(SUPER_ADMIN_GROUPS[k], GroupLower(group.chars))

\* line 76: [str(row['function_id']) for row in results if row.get('function_id')]
FunctionIdsOf(rows) == SelectSeq(rows, LAMBDA id : id # "")

\* lines 47-78: the rows are those execute_query returned for the user
\* (none if the query failed)
get_user_function_access(uid, group, rows) ==
  IF IsSuperAdminGroup(group) THEN UserFunctionAccess(TRUE, <<>>)
  ELSE IF uid = "" THEN UserFunctionAccess(FALSE, <<>>)
  ELSE UserFunctionAccess(FALSE, FunctionIdsOf(rows))

\* `if selected_function_id:`
Selected(selected) == selected.has /\ selected.id # ""

\* the fragments: '' ("none"), ' AND 1 = 0' ("deny"), a test of one
\* function id ("eq") or of a list of them ("in"), through the join table
\* or the column `via`, for the table alias
Fragment(kind, via, table_alias, ids) ==
  [kind |-> kind, via |-> via, alias |-> table_alias, ids |-> ids]

\* the builders without the check of the selected function
FunctionFilterUnchecked(via, table_alias, acc, selected) ==
  IF Selected(selected) THEN Fragment("eq", via, table_alias, <<selected.id>>)
  ELSE IF acc.is_super_admin THEN Fragment("none", "", "", <<>>)
  ELSE IF acc.function_ids = <<>> THEN Fragment("deny", "", "", <<>>)
  ELSE Fragment("in", via, table_alias, acc.function_ids)

\* the body the four builders share (lines 90-103, 115-127, 139-151,
\* 163-175)
FunctionFilter(via, table_alias, acc, selected) ==
  IF Selected(selected)
  THEN IF ~acc.is_super_admin /\ selected.id \notin RangeOf(acc.function_ids)
       THEN Fragment("deny", "", "", <<>>)
       ELSE Fragment("eq", via, table_alias, <<selected.id>>)
  ELSE IF acc.is_super_admin THEN Fragment("none", "", "", <<>>)
  ELSE IF acc.function_ids = <<>> THEN Fragment("deny", "", "", <<>>)
  ELSE Fragment("in", via, table_alias, acc.function_ids)

build_control_function_filter(table_alias, acc, selected) ==
  FunctionFilter("ControlFunctions", table_alias, acc, selected)

build_risk_function_filter(table_alias, acc, selected) ==
  FunctionFilter("RiskFunctions", table_alias, acc, selected)

build_kri_function_filter(table_alias, acc, selected) ==
  FunctionFilter("related_function_id", table_alias, acc, selected)

build_incident_function_filter(table_alias, acc, selected) ==
  FunctionFilter("function_id", table_alias, acc, selected)

\* the function ids of the database and one that no user has; '' stands
\* for a NULL function_id
FunctionIds == { "f1", "f2" }
ForeignFunctionId == "f9"

FunctionRowLists == UNION { [1..n -> FunctionIds \cup {""}] : n \in 0..MaxFunctions }
FunctionIdLists == UNION { [1..n -> FunctionIds] : n \in 0..MaxFunctions }

SelectedFunctions ==
  { NoSelection } \cup
  { [has |-> TRUE, id |-> id] : id \in FunctionIds \cup { ForeignFunctionId, "" } }

\* the group names of the users
GroupNames ==
  { NoText } \cup
  { [has |-> TRUE, chars |-> g] :
      g \in { <<>>, << "A", "d", "m", "i", "n" >>,
              << "S", "u", "p", "e", "r", "-", "A", "d", "m", "i", "n" >>,
              << "s", "u", "p", "e", "r", "_", "a", "d", "m", "i", "n" >>,
              << "S", "U", "P", "E", "R", "A", "D", "M", "I", "N" >>,
              << "I", "T", " ", "A", "d", "m", "i", "n", "i", "s", "t", "r", "a", "t", "o", "r", "s" >>,
              << "R", "i", "s", "k", " ", "M", "a", "n", "a", "g", "e", "r" >>,
              << "a", "n", "a", "l", "y", "s", "t" >>,
              << "s", "u", "p" >>,
              << "m", "i", "n" >>,
              << "a" >>,
              << "_" >> } }

TableAliases == { "r", "c" }

AccessInit ==
  /\ ExecIdle
  /\ DynIdle
  /\ FormatIdle
  /\ ExportIdle
  /\ RouteIdle
  /\ ChartIdle
  /\ svc_user_id \in { "", "u1" }
  /\ group_name \in GroupNames
  /\ function_rows \in FunctionRowLists
  /\ selected_function_id \in SelectedFunctions
  /\ user_access = UserFunctionAccess(FALSE, <<>>)
  /\ access_via = "none"
  /\ function_filter = NoFilter
  /\ acc_pc = "start"

\* get_user_function_access, lines 47-78
GetUserFunctionAccess ==
  /\ acc_pc = "start"
  /\ user_access' = get_user_function_access(svc_user_id, group_name, function_rows)
  /\ access_via' = "service"
  /\ acc_pc' = "access"
  /\ UNCHANGED << svc_user_id, group_name, function_rows, selected_function_id,
                  function_filter >>
  /\ UNCHANGED << execVars, dynVars, formatVars, exportVars, routeVars, chartVars >>

\* UserFunctionAccess(...), lines 16-20: a caller makes the object itself
ConstructAccess ==
  /\ acc_pc = "start"
  /\ \E is_super_admin \in BOOLEAN, function_ids \in FunctionIdLists :
       user_access' = UserFunctionAccess(is_super_admin, function_ids)
  /\ access_via' = "constructor"
  /\ acc_pc' = "access"
  /\ UNCHANGED << svc_user_id, group_name, function_rows, selected_function_id,
                  function_filter >>
  /\ UNCHANGED << execVars, dynVars, formatVars, exportVars, routeVars, chartVars >>

\* a call of the builder b with the access object and the selection
BuildFilter(b, fragment) ==
  /\ acc_pc = "access"
  /\ function_filter' = [builder |-> b] @@ fragment
  /\ acc_pc' = "built"
  /\ UNCHANGED << svc_user_id, group_name, function_rows, selected_function_id,
                  user_access, access_via >>
  /\ UNCHANGED << execVars, dynVars, formatVars, exportVars, routeVars, chartVars >>

BuildControlFilter ==
  \E a \in TableAliases :
    BuildFilter("control", build_control_function_filter(a, user_access, selected_function_id))

BuildRiskFilter ==
  \E a \in TableAliases :
    BuildFilter("risk", build_risk_function_filter(a, user_access, selected_function_id))

BuildKriFilter ==
  \E a \in TableAliases :
    BuildFilter("kri", build_kri_function_filter(a, user_access, selected_function_id))

BuildIncidentFilter ==
  \E a \in TableAliases :
    BuildFilter("incident", build_incident_function_filter(a, user_access, selected_function_id))

AccessNext ==
  \/ GetUserFunctionAccess
  \/ ConstructAccess
  \/ BuildControlFilter
  \/ BuildRiskFilter
  \/ BuildKriFilter
  \/ BuildIncidentFilter

SpecAccess == AccessInit /\ [][AccessNext]_vars

(***************************************************************************)
(* log_report_export and list_recent_exports: the table                    *)
(* dbo.report_exports, which both handlers create when it is missing, and  *)
(* the pagination of the listing.                                          *)
(***************************************************************************)
\* lines 80-88: the columns of the table log_report_export creates
LogCreateColumns ==
  { "id", "title", "src", "format", "dashboard", "created_by", "created_at" }

\* lines 152-161: the columns of the table list_recent_exports creates
ListCreateColumns ==
  { "id", "title", "src", "format", "dashboard", "type", "created_by",
    "created_at" }

\* lines 119-120: the columns the INSERT names
InsertColumns == { "title", "src", "format", "dashboard", "type", "created_by" }

\* IF NOT EXISTS (...) CREATE TABLE dbo.report_exports (cols)
EnsureTable(table, cols) ==
  IF table.exists THEN table
  ELSE [exists |-> TRUE, columns |-> cols, count |-> 0]

\* IF NOT EXISTS (...) ALTER TABLE dbo.report_exports ADD col
EnsureColumn(table, col) == [table EXCEPT !.columns = @ \cup {col}]

Max(a, b) == IF a >= b THEN a ELSE b
Min(a, b) == IF a <= b THEN a ELSE b

MaxPageSize == 200
DefaultPageSize == 50
DefaultPage == 1

\* the pagination with totalPages rounded down
PaginationFloor(limit_in, page_in, total_count) ==
  LET safe_limit == Max(1, Min(MaxPageSize, limit_in))
      safe_page == Max(1, page_in)
      offset == (safe_page - 1) * safe_limit
  IN  [page |-> safe_page, limit |-> safe_limit, total |-> total_count,
       totalPages |-> total_count \div safe_limit,
       hasNext |-> offset + safe_limit < total_count,
       hasPrev |-> safe_page > 1]

\* lines 240-242 and 269-276
Pagination(limit_in, page_in, total_count) ==
  LET safe_limit == Max(1, Min(MaxPageSize, limit_in))
      safe_page == Max(1, page_in)
      offset == (safe_page - 1) * safe_limit
  IN  [page |-> safe_page, limit |-> safe_limit, total |-> total_count,
       totalPages |-> (total_count + safe_limit - 1) \div safe_limit,
       hasNext |-> offset + safe_limit < total_count,
       hasPrev |-> safe_page > 1]

\* OFFSET offset ROWS FETCH NEXT safe_limit ROWS ONLY: the rows returned
RowsFetched(offset, safe_limit, total_count) ==
  Max(0, Min(safe_limit, total_count - offset))

\* the limit and page query parameters: missing, or an integer
LimitParams == { DefaultPageSize, -1, 0, 1, 2, MaxPageSize - 1, MaxPageSize,
                 MaxPageSize + 1 }
PageParams == { DefaultPage, -1, 0, 2, 3, 4 }

\* the row counts of the populated tables
PagingTotals ==
  { 0, 1, 2, 3, 4, 5, DefaultPageSize, DefaultPageSize + 1, MaxPageSize - 1,
    MaxPageSize, MaxPageSize + 1, 2 * MaxPageSize - 1, 2 * MaxPageSize,
    2 * MaxPageSize + 1 }

\* a database in which dbo.report_exports does not exist
ExportsInit ==
  /\ ExecIdle
  /\ DynIdle
  /\ FormatIdle
  /\ AccessIdle
  /\ RouteIdle
  /\ ChartIdle
  /\ report_exports = NoExportsTable
  /\ export_request = NoExportRequest
  /\ export_result = NoExportResult

\* a database whose table has all its columns and some rows
PagingInit ==
  /\ ExecIdle
  /\ DynIdle
  /\ FormatIdle
  /\ AccessIdle
  /\ RouteIdle
  /\ ChartIdle
  /\ \E n \in PagingTotals :
       report_exports = [exists |-> TRUE, columns |-> ListCreateColumns, count |-> n]
  /\ export_request = NoExportRequest
  /\ export_result = NoExportResult

\* log_report_export, lines 55-132: the table is created if it is missing,
\* created_by is added if it is missing, and the row is inserted; an INSERT
\* that names a column the table does not have raises, and the handler
\* returns {"success": False, ...} with the table left as it is
LogReportExport ==
  /\ report_exports.count < MaxExports
  /\ LET ensured == EnsureColumn(EnsureTable(report_exports, LogCreateColumns),
                                 "created_by")
     IN  IF InsertColumns \subseteq ensured.columns
         THEN /\ report_exports' = [ensured EXCEPT !.count = @ + 1]
              /\ export_result' =
                   [NoExportResult EXCEPT !.success = TRUE, !.id = ensured.count + 1]
         ELSE /\ report_exports' = ensured
              /\ export_result' = NoExportResult
  /\ export_request' = [NoExportRequest EXCEPT !.op = "log"]
  /\ UNCHANGED << execVars, dynVars, formatVars, accessVars, routeVars, chartVars >>

\* list_recent_exports, lines 134-282: the table is created if it is
\* missing, type and created_by are added if they are missing, the rows are
\* counted and one page of them is returned
ListRecentExports ==
  \E limit_in \in LimitParams, page_in \in PageParams :
    LET ensured == EnsureColumn(EnsureColumn(
                     EnsureTable(report_exports, ListCreateColumns), "type"),
                     "created_by")
        p == Pagination(limit_in, page_in, ensured.count)
    IN  /\ report_exports' = ensured
        /\ export_request' = [op |-> "list", limit |-> limit_in, page |-> page_in]
        /\ export_result' =
             [NoExportResult EXCEPT
                !.success = TRUE,
                !.returned = RowsFetched((p.page - 1) * p.limit, p.limit, p.total),
                !.pagination = p]
        /\ UNCHANGED << execVars, dynVars, formatVars, accessVars, routeVars, chartVars >>

ExportsNext ==
  \/ LogReportExport
  \/ ListRecentExports

SpecExports == ExportsInit /\ [][ExportsNext]_vars

SpecPaging == PagingInit /\ [][ExportsNext]_vars

(***************************************************************************)
(* The risk and comply export endpoints: the normalisation of cardType     *)
(* and the answer to a request without one.                                *)
(***************************************************************************)
txtTrue == << "t", "r", "u", "e" >>
txtTrueCap == << "T", "r", "u", "e" >>
txtFalseCap == << "F", "a", "l", "s", "e" >>

\* convert_to_boolean of routes.route_utils, after the stand-in the risk
\* endpoints use when it raises: str(value).lower() == 'true'
convert_to_boolean(value) == PyLower(value) = txtTrue

\* the truth value of a str: it is not empty
StrTruthy(value) == value # <<>>

RouteResponse(status, detail) == [status |-> status, detail |-> detail]

txtCardTypeRequired == "cardType or chartType is required for exports"

\* risk_api_routes.py, lines 85-89 and 260-264
RiskCardType(q) ==
  LET c1 == IF q.chartType # "" /\ q.cardType = "" THEN q.chartType ELSE q.cardType
  IN  IF StrTruthy(q.onlyOverallTable) /\ q.tableType # "" THEN q.tableType ELSE c1

\* comply_api_routes.py, lines 122-131 and 341-350
ComplyCardType(q) ==
  LET c1 == IF convert_to_boolean(q.onlyChart) /\ q.cardType = "" /\ q.chartType # ""
            THEN q.chartType ELSE q.cardType
  IN  IF convert_to_boolean(q.onlyOverallTable) /\ q.tableType # ""
      THEN q.tableType ELSE c1

\* the requests: cardType, chartType and tableType are missing or name a
\* card, a chart and a table; the flags are missing from the URL (the
\* default 'False'), empty, or spell a truth value
ExportQueries ==
  [ cardType : { "", "total" },
    chartType : { "", "risksByCategory" },
    tableType : { "", "allRisks" },
    onlyChart : { txtFalseCap, txtTrue },
    onlyOverallTable : { txtFalseCap, <<>>, txtTrue, txtTrueCap } ]

Endpoints ==
  { "export_risks_pdf", "export_risks_excel", "export_comply_pdf",
    "export_comply_excel" }

RouteInit ==
  /\ ExecIdle
  /\ DynIdle
  /\ FormatIdle
  /\ AccessIdle
  /\ ExportIdle
  /\ ChartIdle
  /\ endpoint \in Endpoints
  /\ query \in ExportQueries
  /\ card_type = ""
  /\ route_response = RouteResponse(0, "")
  /\ route_pc = "start"

\* the body of an export endpoint once cardType is normalised to c: a
\* request without cardType raises HTTPException(400) inside the try block
\* and `except Exception` answers 500 'Export failed: ...'; otherwise the
\* data is fetched and the file generated, saved and sent, or one of these
\* raises and the answer is the same 500
ExportBody(name, c) ==
  /\ endpoint = name
  /\ route_pc = "start"
  /\ card_type' = c
  /\ IF c = ""
     THEN route_response' = RouteResponse(500, "Export failed: " \o txtCardTypeRequired)
     ELSE \/ route_response' = RouteResponse(200, "")
          \/ route_response' = RouteResponse(500, "Export failed")
  /\ route_pc' = "done"
  /\ UNCHANGED << endpoint, query >>
  /\ UNCHANGED << execVars, dynVars, formatVars, accessVars, exportVars, chartVars >>

\* risk_api_routes.py, lines 40-208
export_risks_pdf == ExportBody("export_risks_pdf", RiskCardType(query))

\* risk_api_routes.py, lines 210-366
export_risks_excel == ExportBody("export_risks_excel", RiskCardType(query))

\* comply_api_routes.py, lines 90-307
export_comply_pdf == ExportBody("export_comply_pdf", ComplyCardType(query))

\* comply_api_routes.py, lines 310-526
export_comply_excel == ExportBody("export_comply_excel", ComplyCardType(query))

RouteNext ==
  \/ export_risks_pdf
  \/ export_risks_excel
  \/ export_comply_pdf
  \/ export_comply_excel

SpecRoutes == RouteInit /\ [][RouteNext]_vars

(***************************************************************************)
(* The dynamic dashboard: save_chart_to_dynamic_dashboard,                 *)
(* get_dynamic_dashboard_charts and delete_dynamic_dashboard_chart.        *)
(***************************************************************************)
\* request.state.user: not set, or a dict whose id is missing or empty
\* (''), or the id of a user
Users == { NoUser } \cup { [present |-> TRUE, id |-> id] : id \in { "", "u1", "u2" } }

ChartResult(status, ids) == [status |-> status, charts |-> ids]

\* a row of dynamic_dashboard_charts; user_id '' stands for NULL
ChartRow(user_id, is_active) == [user_id |-> user_id, is_active |-> is_active]

\* the ids of the rows WHERE is_active = 1, ORDER BY created_at DESC
ActiveIds(rows) ==
  LET RECURSIVE Walk(_)
      Walk(i) == IF i = 0 THEN <<>>
                 ELSE IF rows[i].is_active THEN <<i>> \o Walk(i - 1)
                 ELSE Walk(i - 1)
  IN  Walk(Len(rows))

\* WHERE id = ?, whoever owns the chart
DeleteMatchesAnyOwner(rows, chart_id, user_id) == chart_id \in 1..Len(rows)

\* lines 1146-1157: WHERE id = ? AND (user_id = ? OR user_id IS NULL) for a
\* request with a user id, WHERE id = ? for one without
DeleteMatches(rows, chart_id, user_id) ==
  /\ chart_id \in 1..Len(rows)
  /\ user_id # "" => rows[chart_id].user_id \in { user_id, "" }

ChartsInit ==
  /\ ExecIdle
  /\ DynIdle
  /\ FormatIdle
  /\ AccessIdle
  /\ ExportIdle
  /\ RouteIdle
  /\ dashboard_charts = NoChartsTable
  /\ deleted_charts = {}
  /\ chart_request = NoChartRequest
  /\ chart_result = NoChartResult

\* save_chart_to_dynamic_dashboard, lines 937-1055: without
\* request.state.user, user.get('name') raises and the answer is 500;
\* otherwise the table is created if it is missing and the chart is
\* inserted, active, under the user id, or NULL if there is none
SaveChart ==
  \E user \in Users :
    /\ Len(dashboard_charts.rows) < MaxCharts
    /\ chart_request' = [op |-> "save", user |-> user, chart_id |-> 0]
    /\ IF ~user.present
       THEN /\ chart_result' = ChartResult(500, <<>>)
            /\ UNCHANGED dashboard_charts
       ELSE /\ dashboard_charts' =
                 [exists |-> TRUE,
                  rows |-> Append(dashboard_charts.rows, ChartRow(user.id, TRUE))]
            /\ chart_result' = ChartResult(200, <<Len(dashboard_charts.rows) + 1>>)
    /\ UNCHANGED deleted_charts
    /\ UNCHANGED << execVars, dynVars, formatVars, accessVars, exportVars, routeVars >>

\* get_dynamic_dashboard_charts, lines 1058-1126: no chart if the table is
\* missing, otherwise the active charts, newest first
GetCharts ==
  \E user \in Users :
    /\ chart_request' = [op |-> "get", user |-> user, chart_id |-> 0]
    /\ chart_result' = ChartResult(200, IF dashboard_charts.exists
                                        THEN ActiveIds(dashboard_charts.rows)
                                        ELSE <<>>)
    /\ UNCHANGED << dashboard_charts, deleted_charts >>
    /\ UNCHANGED << execVars, dynVars, formatVars, accessVars, exportVars, routeVars >>

\* delete_dynamic_dashboard_chart, lines 1129-1175: the UPDATE raises if
\* the table is missing (500); it sets is_active = 0 on the row it
\* matches; the answer is 404 if it matched no row
DeleteChart ==
  \E user \in Users, chart_id \in 1..MaxCharts :
    /\ chart_request' = [op |-> "delete", user |-> user, chart_id |-> chart_id]
    /\ IF ~dashboard_charts.exists
       THEN /\ chart_result' = ChartResult(500, <<>>)
            /\ UNCHANGED << dashboard_charts, deleted_charts >>
       ELSE IF DeleteMatches(dashboard_charts.rows, chart_id, user.id)
       THEN /\ dashboard_charts' =
                 [dashboard_charts EXCEPT !.rows[chart_id].is_active = FALSE]
            /\ deleted_charts' = deleted_charts \cup {chart_id}
            /\ chart_result' = ChartResult(200, <<>>)
       ELSE /\ chart_result' = ChartResult(404, <<>>)
            /\ UNCHANGED << dashboard_charts, deleted_charts >>
    /\ UNCHANGED << execVars, dynVars, formatVars, accessVars, exportVars, routeVars >>

ChartsNext ==
  \/ SaveChart
  \/ GetCharts
  \/ DeleteChart

SpecCharts == ChartsInit /\ [][ChartsNext]_vars

(***************************************************************************)
(* Properties of execute_sql_query, checked under SpecExec.                *)
(***************************************************************************)
\* the maximal \w runs of text
WordsOf(text) == {SubSeq(text, i, WordEnd(text, i)) : i \in WordStarts(text)}

\* kw is one of the words of text
IsWordOf(text, kw) == kw \in WordsOf(text)

\* the trimmed, upper-cased text starts with SELECT and none of the nine
\* keywords is one of its words
AllowedText(raw) ==
  LET text == PyUpper(PyStrip(raw))
      words == WordsOf(text)
  IN  /\ PyStartsWith(text, kwSELECT)
      /\ \A k \in 1..Len(dangerous_keywords) :
           dangerous_keywords[k].chars \notin words

\* the handler went on to execute the text
Accepted == pc \in {"connect", "cursor", "execute", "fetchall", "fallback", "return"}
              \/ (pc = "done" /\ connects > 0)

\* the handler answered without executing the text
Rejected == pc = "done" /\ connects = 0

\* C1 as stated: a submitted text is accepted exactly when it is allowed
\* (starts with SELECT once trimmed and upper-cased, no denylisted whole
\* word), and every other text is rejected with status 400.
C1_AcceptedIffAllowed ==
  pc # "start" =>
    /\ Accepted <=> AllowedText(sql)
    /\ ~AllowedText(sql) => Rejected /\ response.status = 400

\* C1 as amended: the above holds of every request whose limit int()
\* converts; a request whose limit does not convert is answered 500
\* before the text is looked at, whatever the text.
C1_AcceptedIffAllowedWhenLimitConverts ==
  pc # "start" =>
    IF LimitRaises(limit)
    THEN Rejected /\ response.status = 500
    ELSE /\ Accepted <=> AllowedText(sql)
         /\ ~AllowedText(sql) => Rejected /\ response.status = 400

\* a text holding CREATE only inside createdAt has been accepted
C1_Witness ==
  /\ pc = "connect"
  /\ PyContains(PyUpper(sql), dangerous_keywords[6].chars)
  /\ sql = sqlSelectCreatedAt

\* C2: for a text that is rejected (empty, not starting with SELECT, or
\* holding a denylisted whole word) no connection is opened at any point
\* of the request.
C2_NoConnectionForRejectedText ==
  ~AllowedText(sql) => connects = 0 /\ conn = "none" /\ cursor = "none"

\* a text with a denylisted word written in lower case has been rejected
C2_Witness ==
  /\ pc = "done"
  /\ sql = sqlSelectUpdateLower
  /\ response.status = 400
  /\ response.keyword = "UPDATE"
  /\ connects = 0

C4_UnsupportedTypeIsStructuredError ==
  ( /\ pc = "done"
    /\ sql = sqlSelectCreatedAt
    /\ \/ odbcAt = "execute"
       \/ odbcAt = "fetch" /\ badRow # 0 ) =>
    /\ response.success = FALSE
    /\ response.hint = "CAST these columns"
    /\ txtCreatedAt \in response.cast

CellAsRead(i, j) ==
  IF <<i, j>> \in colFaults
  THEN response.rows[i][columns[j]] \in {"[Unsupported Type]", "[Error]"}
  ELSE response.rows[i][columns[j]] = convert_value_safely(rs.rows[i][j])

LastOfItsName(j) == \A k \in (j + 1)..Len(columns) : columns[k] # columns[j]

\* C6 as stated: in the fallback a failed column read replaces only that
\* cell with a placeholder, the row is returned with every other column
\* converted normally, and every returned row has exactly one entry per
\* result column.
C6_OneEntryPerResultColumn ==
  (pc = "done" /\ path = "fallback" /\ response.success) =>
    \A i \in 1..Len(response.rows) :
      /\ \A j \in 1..Len(columns) : LastOfItsName(j) => CellAsRead(i, j)
      /\ Cardinality(DOMAIN response.rows[i]) = Len(response.columns)

\* C6 as amended: as stated, except that a returned row has exactly one
\* entry per distinct result column name: columns of the same name share
\* one entry, which holds the cell of the last of them.
C6_OneEntryPerColumnName ==
  (pc = "done" /\ path = "fallback" /\ response.success) =>
    /\ Len(response.rows) = fetched
    /\ \A i \in 1..Len(response.rows) :
         /\ \A j \in 1..Len(columns) : LastOfItsName(j) => CellAsRead(i, j)
         /\ DOMAIN response.rows[i] = RangeOf(response.columns)

\* a row was returned whose first column could not be read and whose
\* second column holds its converted value
C6_Witness ==
  /\ pc = "done"
  /\ path = "fallback"
  /\ response.success
  /\ columns = <<"a", "b">>
  /\ <<1, 1>> \in colFaults
  /\ Len(response.rows) >= 2
  /\ response.rows[1]["a"] = "[Unsupported Type]"
  /\ response.rows[1]["b"] = convert_value_safely(rs.rows[1][2])

\* the string the specification gives for a cell: '' for null, the string
\* form of a scalar, the ISO-8601 string of a date or datetime, str() or
\* repr() of any other value
SpecifiedString(v) ==
  CASE v.t = "none" -> ""
    [] v.t \in {"str", "int", "float", "bool"} -> PyStrScalar(v)
    [] v.t \in {"date", "datetime"} -> IsoFormat(v)
    [] OTHER -> v.s

\* C7: every cell of a bulk response is the specified string of the
\* database value: '' for null, str() for str/int/float/bool, isoformat()
\* for date and datetime, a best-effort string for any other value.
C7_CellsConvertedAsSpecified ==
  (pc = "done" /\ path = "bulk") =>
    \A i \in 1..Len(response.rows) :
      \A j \in 1..Len(columns) :
        LastOfItsName(j) =>
          response.rows[i][columns[j]] = SpecifiedString(rs.rows[i][j])

\* C8: for every limit the response holds at most limit rows (none when
\* the limit is negative) on the bulk path and on the fallback path, and
\* total is the number of rows returned.
C8_AtMostLimitRows ==
  (pc = "done" /\ response.success) =>
    /\ Len(response.rows) <= (IF max_rows > 0 THEN max_rows ELSE 0)
    /\ response.total = Len(response.rows)

\* C9: once a handler has opened a connection, the connection is closed
\* when the handler has returned, on every exit path.
C9_ConnectionClosedOnReturn ==
  /\ pc = "done" => conn # "open"
  /\ dpc = "done" => dconn # "open"

(***************************************************************************)
(* Properties of the dynamic report handlers, checked under SpecDyn.       *)
(***************************************************************************)
\* every character of col is whitespace
IsBlank(col) == \A i \in 1..Len(col) : IsSpace(col[i])

RECURSIVE RealColumns(_)
\* cols without the entries that are '#' or blank, in the same order
RealColumns(cols) ==
  IF cols = <<>> THEN <<>>
  ELSE IF Head(cols) = colIndex \/ IsBlank(Head(cols))
       THEN RealColumns(Tail(cols))
       ELSE <<Head(cols)>> \o RealColumns(Tail(cols))

\* C10: the column list passed to build_dynamic_sql_query by either
\* handler holds neither '#' nor a blank or whitespace-only entry, and is
\* otherwise the requested column list in its original order.
C10_BuilderColumnsFiltered ==
  \A k \in 1..Len(builder_args) :
    /\ \A i \in 1..Len(builder_args[k]) :
         /\ builder_args[k][i] # colIndex
         /\ ~IsBlank(builder_args[k][i])
    /\ builder_args[k] = RealColumns(req_columns)

\* the builder was called for a request listing b, '#' and a
C10_Witness ==
  /\ req_columns = << <<"b">>, colIndex, <<"a">> >>
  /\ builder_args = << << <<"b">>, <<"a">> >> >>

(***************************************************************************)
(* Properties of the query stage, checked under SpecShape.                 *)
(***************************************************************************)
\* the decimal numeral of a position below one hundred
Numeral(i) ==
  IF i < 10 THEN <<DigitChars[i + 1]>>
  ELSE <<DigitChars[(i \div 10) + 1], DigitChars[(i % 10) + 1]>>

\* C11: the renderer of generate_dynamic_report is handed '#' followed by
\* the filtered request columns, and for every i the i-th row is the
\* numeral of i followed by the strings of the i-th fetched row's cells;
\* the i-th row dict holds the same numeral under '#'.
C11_IndexPrependedInFetchOrder ==
  (handler = "generate" /\ rendered) =>
    /\ out_columns = <<colIndex>> \o RealColumns(req_columns)
    /\ Len(out_rows) = Len(dyn_rows)
    /\ Len(data_rows_dict) = Len(dyn_rows)
    /\ \A i \in 1..Len(dyn_rows) :
         /\ Len(out_rows[i]) = Len(dyn_rows[i]) + 1
         /\ out_rows[i][1] = Numeral(i)
         /\ \A j \in 1..Len(dyn_rows[i]) :
              out_rows[i][j + 1] = CellString(dyn_rows[i][j])
         /\ data_rows_dict[i][colIndex] = StrCell(Numeral(i))

\* three rows of a request listing '#' and status were rendered
C11_Witness ==
  /\ handler = "generate"
  /\ rendered
  /\ req_columns = <<colIndex, txtStatus>>
  /\ dyn_rows = << <<StrCell(txtOpen)>>, <<NoneCell>>, <<StrCell(txtClosed)>> >>
  /\ out_rows = << << <<"1">>, txtOpen >>, << <<"2">>, <<>> >>, << <<"3">>, txtClosed >> >>

\* C12: the columns the preview returns start with one '#', and each
\* returned row maps '#' to the numeral of its position and each real
\* requested column to the row's cell of that column.
C12_PreviewRowsKeyedByRequestedColumns ==
  (handler = "preview" /\ dresponse.status = 200) =>
    LET real == RealColumns(req_columns)
    IN  /\ out_columns[1] = colIndex
        /\ \A j \in 2..Len(out_columns) : out_columns[j] # colIndex
        /\ \A i \in 1..Len(out_rows) :
             /\ out_rows[i][colIndex] = Numeral(i)
             /\ \A j \in 1..Len(real) :
                  /\ real[j] \in DOMAIN out_rows[i]
                  /\ out_rows[i][real[j]] = CellString(dyn_rows[i][j])

\* C13: the preview returns at most previewLimit rows (none for a negative
\* previewLimit) and total is the number of rows the query fetched.
C13_PreviewAtMostLimitRows ==
  (handler = "preview" /\ dresponse.status = 200) =>
    /\ Len(out_rows) <= (IF preview_limit > 0 THEN preview_limit ELSE 0)
    /\ total_rows = Len(dyn_rows)

\* m is the column the priority order of the specification picks for key:
\* an exact match if there is one, else a match of the lower-cased parts
\* after the last dot, else a match of the lower-cased names
PriorityMatch(m, key, available_cols) ==
  LET cols == RangeOf(available_cols)
      exact == {c \in cols : c = key}
      suffix == {c \in cols : PyLower(SplitLast(c)) = PyLower(SplitLast(key))}
      full == {c \in cols : PyLower(c) = PyLower(key)}
  IN  IF exact # {} THEN m \in exact
      ELSE IF suffix # {} THEN m \in suffix
      ELSE m \in full

\* C14: a chart key resolves in global priority order: to a column that
\* matches it exactly whenever there is one, and to a column that matches
\* only case-insensitively only when there is none.
C14_ExactMatchHasPriority ==
  (handler = "generate" /\ dpc = "extract") =>
    /\ PriorityMatch(x_col_match, PyStrip(merged_config.chartConfig.xKey.chars),
                     AvailableCols(column_names))
    /\ PriorityMatch(y_col_match, PyStrip(merged_config.chartConfig.yKey.chars),
                     AvailableCols(column_names))

\* the request's headerConfig over the defaults
MergedHeader == MergeConfig(default_config, header_config)

\* the handler has written merged_config['chart_data']
ChartWritten ==
  /\ merged_config.chart_data.has
  /\ merged_config.chart_data # MergedHeader.chart_data

\* the extraction of labels and values has run
Extracted == handler = "generate" /\ dpc \in {"render", "done"} /\ chart_path # "none"

\* the x and the y value of the i-th row
XVal(i) == DictGet(data_rows_dict[i], x_col_match)
YVal(i) == DictGet(data_rows_dict[i], y_col_match)

\* v reads as a number
Parses(v) == v.t # "none" /\ NumericOf(v).ok

\* positions, among the first ten rows, of the first y value that is not
\* null
FirstSampled ==
  {i \in 1..Len(data_rows_dict) :
     /\ i <= 10
     /\ YVal(i).t # "none"
     /\ \A h \in 1..(i - 1) : YVal(h).t = "none"}

SampleNumeric == \E i \in FirstSampled : Parses(YVal(i))
SampleNonNumeric == \E i \in FirstSampled : ~Parses(YVal(i))

\* rows with an x value, a y value, and a y value that reads as a number
ChartableRows ==
  {i \in 1..Len(data_rows_dict) :
     XVal(i).t # "none" /\ YVal(i).t # "none" /\ Parses(YVal(i))}

Nth(positions, k) ==
  CHOOSE i \in positions : Cardinality({h \in positions : h <= i}) = k

\* C16: with a numeric y column, labels and values hold, in row order, the
\* string of x and the number of y of every row that has an x, a y, and a
\* y that reads as a number; the other rows are skipped and the request
\* goes on to the renderer.
C16_NumericRowsInOrder ==
  /\ (Extracted /\ y_col_match # colIndex /\ SampleNumeric) =>
       IF ChartableRows = {} THEN ~ChartWritten
       ELSE /\ ChartWritten
            /\ Len(merged_config.chart_data.labels) = Cardinality(ChartableRows)
            /\ Len(merged_config.chart_data.values) = Cardinality(ChartableRows)
            /\ \A k \in 1..Cardinality(ChartableRows) :
                 /\ merged_config.chart_data.labels[k]
                      = PyStr(XVal(Nth(ChartableRows, k)))
                 /\ merged_config.chart_data.values[k]
                      = NumericOf(YVal(Nth(ChartableRows, k))).value
  /\ (handler = "generate" /\ dpc = "render") => dresponse.status = 0

\* rows Jan/'5' and Feb/'bad' gave labels ['Jan'] and values [5.0]
C16_Witness ==
  /\ Extracted
  /\ dyn_rows = << <<StrCell(txtJan), StrCell(<<"5">>)>>,
                   <<StrCell(txtFeb), StrCell(txtBad)>> >>
  /\ y_col_match = txtCount
  /\ merged_config.chart_data.labels = <<txtJan>>
  /\ merged_config.chart_data.values = <<FloatValue(5)>>

RECURSIVE SumOfCounts(_)
SumOfCounts(counts) ==
  IF counts = <<>> THEN 0 ELSE Head(counts).n + SumOfCounts(Tail(counts))

\* chart_data groups the rows by the string of their value in column col:
\* one label for each distinct value, in the order of first appearance,
\* with the number of rows that hold it
GroupedBy(col) ==
  LET cd == merged_config.chart_data
      held == {i \in 1..Len(data_rows_dict) :
                 DictGet(data_rows_dict[i], col).t # "none"}
      str_at(i) == PyStr(DictGet(data_rows_dict[i], col))
      first_at(label) ==
        CHOOSE i \in held : str_at(i) = label
                            /\ \A h \in held : str_at(h) = label => i <= h
  IN  IF held = {} THEN ~ChartWritten
      ELSE /\ ChartWritten
           /\ Len(cd.values) = Len(cd.labels)
           /\ RangeOf(cd.labels) = {str_at(i) : i \in held}
           /\ \A k \in 1..Len(cd.labels) : \A l \in 1..Len(cd.labels) :
                k < l => /\ cd.labels[k] # cd.labels[l]
                         /\ first_at(cd.labels[k]) < first_at(cd.labels[l])
           /\ \A k \in 1..Len(cd.labels) :
                cd.values[k] =
                  IntCell(Cardinality({i \in held : str_at(i) = cd.labels[k]}))
           /\ SumOfCounts(cd.values) = Cardinality(held)

\* C17: when y resolves to '#', the chart dataset counts the rows of each
\* distinct x value, labels in first-seen order, and the counts add up to
\* the number of rows whose x is not null.
C17_IndexKeyCountsByX ==
  (Extracted /\ y_col_match = colIndex) =>
    /\ chart_path = "count"
    /\ GroupedBy(x_col_match)

\* statuses open, open, closed gave labels ['open', 'closed'], values [2, 1]
C17_Witness ==
  /\ Extracted
  /\ y_col_match = colIndex
  /\ x_col_match = txtStatus
  /\ dyn_rows = << <<StrCell(txtOpen)>>, <<StrCell(txtOpen)>>, <<StrCell(txtClosed)>> >>
  /\ merged_config.chart_data.labels = <<txtOpen, txtClosed>>
  /\ merged_config.chart_data.values = <<IntCell(2), IntCell(1)>>

\* C18: with a y column other than '#' that is not numeric and the chart
\* type 'pie', the chart dataset counts the rows of each distinct y value,
\* labels in first-seen order, whatever the x values.
C18_PieDistributionByY ==
  (Extracted /\ y_col_match # colIndex /\ ~SampleNumeric /\ chart_type = txtPie) =>
    /\ chart_path = "distribution"
    /\ GroupedBy(y_col_match)

\* a pie over counts bad, 5, bad gave labels ['bad', '5'], values [2, 1]
C18_Witness ==
  /\ Extracted
  /\ chart_type = txtPie
  /\ y_col_match = txtCount
  /\ dyn_rows = << <<NoneCell, StrCell(txtBad)>>,
                   <<StrCell(txtJan), StrCell(<<"5">>)>>,
                   <<StrCell(txtFeb), StrCell(txtBad)>> >>
  /\ merged_config.chart_data.labels = <<txtBad, <<"5">>>>
  /\ merged_config.chart_data.values = <<IntCell(2), IntCell(1)>>

\* key, trimmed, is a string that is neither empty nor 'none' in any case
KeyGiven(key) ==
  /\ key.has
  /\ PyStrip(key.chars) # <<>>
  /\ PyLower(PyStrip(key.chars)) # txtNone

\* the request binds a chart and the query returned rows
BindingGiven ==
  /\ MergedHeader.chartConfig.kind = "dict"
  /\ KeyGiven(MergedHeader.chartConfig.xKey)
  /\ KeyGiven(MergedHeader.chartConfig.yKey)
  /\ Len(dyn_rows) >= 1

\* C19: the binding is acted upon only if both keys are given and there
\* is a row; otherwise the configuration handed to the renderer holds no
\* chart dataset.
C19_NoChartDataWithoutBinding ==
  /\ (handler = "generate" /\ dpc \in {"resolve", "extract"}) => BindingGiven
  /\ (handler = "generate" /\ rendered /\ ~BindingGiven) =>
       ~merged_config.chart_data.has

\* C19 as amended: the binding is acted upon, and chart_data written by
\* the handler, only if both keys are given and there is a row; otherwise
\* the configuration handed to the renderer holds the chart_data entry of
\* the merged header configuration, if it had one, unchanged.
C19_HandlerWritesChartDataOnlyWithBinding ==
  /\ (handler = "generate" /\ (dpc \in {"resolve", "extract"} \/ ChartWritten))
       => BindingGiven
  /\ (handler = "generate" /\ rendered /\ ~BindingGiven) =>
       merged_config.chart_data = MergedHeader.chart_data

\* a request with yKey 'none' over a table with rows was rendered without
\* a chart dataset
C19_Witness ==
  /\ handler = "generate"
  /\ rendered
  /\ Len(dyn_rows) >= 1
  /\ header_config.chartConfig.kind = "dict"
  /\ KeyGiven(header_config.chartConfig.xKey)
  /\ header_config.chartConfig.yKey = StrKey(txtNone)
  /\ ~merged_config.chart_data.has

\* C20: a chart_data the handler writes has labels and values that are
\* not empty and equally long, and the requested chart type, 'bar' when
\* the request names none.
C20_ChartDataWellFormed ==
  (handler = "generate" /\ ChartWritten) =>
    /\ Len(merged_config.chart_data.labels) > 0
    /\ Len(merged_config.chart_data.values) > 0
    /\ Len(merged_config.chart_data.labels) = Len(merged_config.chart_data.values)
    /\ merged_config.chart_data.type =
         (IF MergedHeader.chartConfig.type.has
          THEN MergedHeader.chartConfig.type.chars ELSE txtBar)

\* a request naming no chart type got a bar chart of two labels
C20_Witness ==
  /\ handler = "generate"
  /\ ChartWritten
  /\ ~header_config.chartConfig.type.has
  /\ merged_config.chart_data.type = txtBar
  /\ Len(merged_config.chart_data.labels) = 2

\* C21: chart shaping never fails the export request and never changes the
\* tabular output.  Every step of the chart stage (the merge of the header
\* configuration, the resolution of the keys, the extraction, an exception
\* of the chart block) leaves the columns, the data rows and the response
\* as they were and leads on towards the renderer; the renderer is called
\* with '#' before the valid columns and with the fetched rows, indexed, as
\* for a request with no chart binding.
TableOfFetch ==
  /\ out_columns = <<colIndex>> \o valid_columns
  /\ out_rows = WithIndex(DataRows(dyn_rows))

C21_ChartShapingKeepsTable ==
  [][ /\ (handler = "generate" /\ dpc \in {"config", "resolve", "extract"})
           => /\ out_columns' = out_columns
              /\ out_rows' = out_rows
              /\ dyn_rows' = dyn_rows
              /\ dresponse' = dresponse
              /\ dresponse.status = 0
              /\ dpc' \in {"resolve", "extract", "render"}
      /\ (handler = "generate" /\ dpc = "render")
           => /\ TableOfFetch
              /\ rendered'
              /\ TableOfFetch' ]_vars

\* a report generated from a request whose chart binding gave no chart
C21_Witness ==
  /\ handler = "generate"
  /\ rendered
  /\ dresponse.status = 200
  /\ BindingGiven
  /\ ~ChartWritten
  /\ Len(out_rows) > 0
  /\ TableOfFetch


\* the tables list is empty, or the column list has no entry other than
\* '#' and blank ones
EmptySelection ==
  \/ req_tables = <<>>
  \/ \A i \in 1..Len(req_columns) :
        req_columns[i] = colIndex \/ PyStrip(req_columns[i]) = <<>>

\* the query builder has not been called and no connection has been opened
NothingStarted ==
  /\ builder_args = <<>>
  /\ dconn = "none"
  /\ dcursor = "none"
  /\ dpc \in {"start", "done"}

\* C22: a dynamic report or preview request with an empty selection is
\* rejected with a 400 error before the query builder is called and before
\* a connection is opened.
C22_EmptySelectionRejected400 ==
  (handler \in {"generate", "preview"} /\ EmptySelection)
    => /\ NothingStarted
       /\ dpc = "done" => dresponse.status = 400

\* C22, amended: such a request is rejected before the query builder is
\* called and before a connection is opened, with a 400 error unless it is
\* a preview request whose previewLimit int() does not convert, which is
\* answered 500 while the body is read.
C22_EmptySelectionRejectedBeforeBuild ==
  (handler \in {"generate", "preview"} /\ EmptySelection)
    => /\ NothingStarted
       /\ dpc = "done" =>
            dresponse.status =
              (IF handler = "preview" /\ LimitRaises(plimit) THEN 500 ELSE 400)

\* a request with a table whose columns are all '#' or blank was rejected
C22_Witness ==
  /\ dpc = "done"
  /\ req_tables # <<>>
  /\ req_columns # <<>>
  /\ EmptySelection
  /\ dresponse.status = 400
  /\ NothingStarted

(***************************************************************************)
(* Properties of the format path, checked under SpecFormat.                *)
(***************************************************************************)
\* the format a request names, case ignored: by name or by alias, and
\* excel for every other value
NamedFormat(raw) ==
  LET w == IF raw.kind = "str" THEN PyLower(PyStrip(raw.chars)) ELSE <<>>
  IN  CASE w \in { txtPdf } -> txtPdf
        [] w \in { txtWord, txtDoc, txtDocx } -> txtWord
        [] OTHER -> txtExcel

\* C23: the requested format resolves to exactly one of excel, pdf and
\* word: aliases by the mapping, case ignored, every unrecognised or
\* non-string value to excel.  The extension of the file and the media type
\* of the response are those of the resolved format, and the 'Unsupported
\* format' branch is never taken.
C23_FormatResolved ==
  /\ fmt_pc \in {"generate", "respond", "done"} =>
       /\ format_type \in { txtExcel, txtPdf, txtWord }
       /\ format_type = NamedFormat(format_type_raw)
  /\ renderer # "unsupported"
  /\ fmt_pc \in {"respond", "done"} =>
       renderer = (CASE format_type = txtExcel -> "generate_excel_report"
                     [] format_type = txtWord -> "generate_word_report"
                     [] OTHER -> "generate_pdf_report")
  /\ fmt_status = 200 =>
       \/ format_type = txtExcel /\ file_extension = txtXlsx /\
            media_type = "application/vnd.openxmlformats-officedocument.spreadsheetml.sheet"
       \/ format_type = txtWord /\ file_extension = txtDocx /\
            media_type = "application/vnd.openxmlformats-officedocument.wordprocessingml.document"
       \/ format_type = txtPdf /\ file_extension = txtPdf /\
            media_type = "application/pdf"

\* a report was sent for a request that named an alias in upper case
C23_Witness ==
  /\ format_type_raw = StrFormat(PyUpper(txtDocx))
  /\ format_type = txtWord
  /\ file_extension = txtDocx
  /\ fmt_status = 200

(***************************************************************************)
(* Properties of the access service, checked under SpecAccess.             *)
(***************************************************************************)
\* C24: for an access object that is not super admin, each of the four
\* builders returns ' AND 1 = 0' when the selected function is not among
\* access.function_ids or when nothing is selected and the list is empty,
\* and otherwise a fragment that names function ids of the list only; the
\* empty fragment is returned only for a super admin with no selection.
C24_FilterWithinAccess ==
  acc_pc = "built" =>
    LET ids == RangeOf(user_access.function_ids)
        chosen == Selected(selected_function_id)
    IN  /\ function_filter.builder \in {"control", "risk", "kri", "incident"}
        /\ ~user_access.is_super_admin =>
             IF \/ chosen /\ selected_function_id.id \notin ids
                \/ ~chosen /\ ids = {}
             THEN function_filter.kind = "deny"
             ELSE /\ function_filter.kind \in {"eq", "in"}
                  /\ function_filter.ids # <<>>
                  /\ RangeOf(function_filter.ids) \subseteq ids
                  /\ function_filter.via =
                       (CASE function_filter.builder = "control" -> "ControlFunctions"
                          [] function_filter.builder = "risk" -> "RiskFunctions"
                          [] function_filter.builder = "kri" -> "related_function_id"
                          [] OTHER -> "function_id")
        /\ function_filter.kind = "none" => (user_access.is_super_admin /\ ~chosen)

\* a user with functions selected a function of somebody else and was
\* denied by the risk builder
C24_Witness ==
  /\ acc_pc = "built"
  /\ function_filter.builder = "risk"
  /\ ~user_access.is_super_admin
  /\ user_access.function_ids # <<>>
  /\ selected_function_id.id = ForeignFunctionId
  /\ function_filter.kind = "deny"

\* C25: get_user_function_access marks a user as super admin only when the
\* group name, lower-cased with '_' and '-' replaced by spaces, contains an
\* entry of SUPER_ADMIN_GROUPS; a non-empty group name that contains none
\* of them is never treated as super admin.
C25_SuperAdminOnlyIfGroupContainsEntry ==
  (access_via = "service" /\ user_access.is_super_admin)
    => /\ group_name.has
       /\ \E k \in 1..Len(SUPER_ADMIN_GROUPS) :
            PyContains(GroupLower(group_name.chars), SUPER_ADMIN_GROUPS[k])

(***************************************************************************)
(* Properties of the export log, checked under SpecExports and SpecPaging. *)
(***************************************************************************)
\* C26: from a database without dbo.report_exports, after any sequence of
\* log_report_export and list_recent_exports calls the table that exists
\* has every column the INSERT of log_report_export names, and each
\* log_report_export call returns success with a new id.
C26_LogAlwaysSucceeds ==
  /\ report_exports.exists => InsertColumns \subseteq report_exports.columns
  /\ export_request.op = "log" =>
       /\ export_result.success
       /\ export_result.id = report_exports.count

\* the least number of pages of `size` rows that hold `total` rows
PagesNeeded(total, size) ==
  CHOOSE n \in 0..total : n * size >= total /\ (n > 0 => (n - 1) * size < total)

\* C30: the effective limit is the requested one clamped to 1..200, the
\* effective page the requested one raised to 1 at least, totalPages is
\* ceil(total / limit), hasPrev holds exactly when page > 1 and hasNext
\* exactly when page < totalPages, that is when rows exist beyond the page.
C30_PaginationArithmetic ==
  export_request.op = "list" =>
    LET p == export_result.pagination
        offset == (p.page - 1) * p.limit
    IN  /\ export_result.success
        /\ p.total = report_exports.count
        /\ p.limit = (IF export_request.limit < 1 THEN 1
                      ELSE IF export_request.limit > 200 THEN 200
                      ELSE export_request.limit)
        /\ p.page = (IF export_request.page < 1 THEN 1 ELSE export_request.page)
        /\ p.totalPages = PagesNeeded(p.total, p.limit)
        /\ p.hasPrev <=> p.page > 1
        /\ p.hasNext <=> p.page < p.totalPages
        /\ p.hasNext <=> p.total > offset + export_result.returned
        /\ export_result.returned <= p.limit
        /\ offset + export_result.returned <= Max(p.total, offset)

\* the second of three pages of 200 rows was listed for a limit above 200
C30_Witness ==
  /\ export_request = [op |-> "list", limit |-> 201, page |-> 2]
  /\ export_result.pagination.limit = 200
  /\ export_result.pagination.totalPages = 3
  /\ export_result.pagination.hasNext
  /\ export_result.pagination.hasPrev
  /\ export_result.returned = 200

(***************************************************************************)
(* Properties of the risk and comply export endpoints, checked under       *)
(* SpecRoutes.                                                             *)
(***************************************************************************)
\* C27: in the four export endpoints a request for which no cardType can
\* be derived is answered with status 400 and the detail 'cardType or
\* chartType is required for exports'.
C27_MissingCardTypeAnswered400 ==
  (route_pc = "done" /\ card_type = "")
    => route_response = RouteResponse(400, txtCardTypeRequired)

\* C28: in export_risks_pdf and export_risks_excel tableType replaces
\* cardType only when onlyOverallTable is true; with the default 'False' a
\* supplied tableType leaves the requested cardType unchanged.
C28_TableTypeOnlyWithOverallTable ==
  ( /\ route_pc = "done"
    /\ endpoint \in {"export_risks_pdf", "export_risks_excel"}
    /\ query.tableType # ""
    /\ PyLower(query.onlyOverallTable) # txtTrue )
    => card_type = (IF query.cardType # "" THEN query.cardType ELSE query.chartType)

====
